---- MODULE Spec2Model ----
(***************************************************************************)
(* L-system grammar engine, turtle interpreters and branch mesh builder of *)
(* the plant generator.  Three source variants are modelled side by side:  *)
(*   "part000"    run / drawPlant of src/unnamed/part_000                  *)
(*   "oldfiles"   run / drawPlant of src/oldfiles/cgIShape.js              *)
(*   "tree3d"     runLSystem / makeStochasticTree / makeBranchSegment of   *)
(*                src/src/tesselation3D/cgIShape.js                        *)
(* A JavaScript string is a sequence of one-character strings; an array of *)
(* symbols is a sequence too.  Probabilities are integers in hundredths, a *)
(* draw of Math.random() is k / DrawRes for k in 0..DrawRes-1.             *)
(***************************************************************************)
EXTENDS Integers, Sequences, FiniteSets, TLC

\* ---------------------------------------------------------------- bounds
MaxAxiom == 2
MaxIter == 3
MaxStoIter == 1
DrawRes == 4
MaxCmds == 4
MaxSubdiv == 2
MaxDivs == 4
MaxCoord == 1

\* ------------------------------------------------------- rewriter state
VARIABLES rvariant, rules, iterations, startString, grammarArray,
          doubleBuffer, dbType, i, j, rand, rpc

rvars == <<rvariant, rules, iterations, startString, grammarArray,
           doubleBuffer, dbType, i, j, rand, rpc>>

\* --------------------------------------------------------- turtle state
\* turtle: the locals of the running interpreter (its loop index included);
\* hist: the pose before the first symbol and after every interpreted one
VARIABLES tvariant, turtle, angleToUse, subdivisions, tpc, hist

tvars == <<tvariant, turtle, angleToUse, subdivisions, tpc, hist>>

\* ------------------------------------------------------ geometry buffers
VARIABLES points, colors, bary, indices

bufvars == <<points, colors, bary, indices>>

\* ------------------------------------------- makeBranchSegment call state
\* before: the buffers as they were when the call started
VARIABLES p1, p2, radius, radialDivs, bi, bpc, before

bvars == <<p1, p2, radius, radialDivs, bi, bpc, before>>

\* ------------------------------------------------- program-level state
\* prog: the program whose entry points are being called; iterations2,
\* growthIterations, storedGrammar, curShape, division1: its globals;
\* history: the per-instance generation cache; reported: something was
\* written to the error console or thrown; last: the most recent entry-point
\* call; prev: the selector of the one before it
VARIABLES prog, iterations2, storedGrammar, growthIterations, history,
          curShape, division1, reported, last, prev

svars == <<prog, iterations2, storedGrammar, growthIterations, history,
           curShape, division1, reported, last, prev>>

vars == <<rvars, tvars, bufvars, bvars, svars>>

SeqsUpTo(S, n) == UNION {[1..k -> S] : k \in 0..n}

\* ----------------------------------------------------------- rule tables
Det(res) == [kind |-> "det", res |-> res, alts |-> <<>>]
Sto(alts) == [kind |-> "sto", res |-> <<>>, alts |-> alts]
Alt(prob, res) == [prob |-> prob, res |-> res]

\* rules = { 'F': "FF" }
RulesFF == "F" :> Det(<<"F", "F">>)

\* rules = { '0': "1[0]0", '1': "11" }
RulesPlant == ("0" :> Det(<<"1", "[", "0", "]", "0">>))
                 @@ ("1" :> Det(<<"1", "1">>))

\* rules = { 'X': "" , 'F': "X+" }: a table with an empty replacement
RulesEmpty == ("X" :> Det(<<>>)) @@ ("F" :> Det(<<"X", "+">>))

\* the stochastic table of createGrammar('stochastic')
RulesStochastic ==
    "F" :> Sto(<< Alt(33, <<"F","[","+","F","]","F","[","-","F","]","F">>),
                  Alt(33, <<"F","[","+","F","]","F">>),
                  Alt(34, <<"F","[","-","F","]","F">>) >>)

\* the stochastic table runLSystem installs on every call
RulesTree_Mut ==
    "F" :> Sto(<< Alt(25, <<"F","[","&","F","]","[","-","F","]">>),
                  Alt(25, <<"F","[","+","F","]">>),
                  Alt(25, <<"F","[","-","F","]">>),
                  Alt(25, <<"[","+","F","]","[","-","F","]">>) >>)
RulesTree ==
    "F" :> Sto(<< Alt(25, <<"F","[","+","F","]","[","-","F","]">>),
                  Alt(25, <<"F","[","+","F","]">>),
                  Alt(25, <<"F","[","-","F","]">>),
                  Alt(25, <<"[","+","F","]","[","-","F","]">>) >>)

\* a stochastic table whose weights sum to 0.6
RulesLenient ==
    "F" :> Sto(<< Alt(25, <<"X">>), Alt(25, <<"+", "F">>),
                  Alt(10, <<"[", "]">>) >>)

Alphabet == {"F", "X", "+", "[", "0", "2"}
Digits == {"0", "1", "2", "3", "4", "5", "6", "7", "8", "9"}
SampleAxioms == {<<"F">>, <<"+", "F">>, <<"F", "F">>, <<"X", "F", "]">>}

DetTables == {RulesFF, RulesEmpty}
StoTables == {RulesStochastic, RulesLenient}
OldTables == {RulesPlant}

Config(v, t, s, n) == [variant |-> v, rules |-> t, startString |-> s,
                       iterations |-> n]

RunConfigs ==
    {Config("part000", t, s, n) :
        t \in DetTables, s \in SeqsUpTo(Alphabet, MaxAxiom), n \in 0..MaxIter}
    \cup {Config("part000", t, s, n) :
        t \in StoTables, s \in SampleAxioms, n \in 0..MaxStoIter}
    \cup {Config("oldfiles", t, s, n) :
        t \in OldTables, s \in SeqsUpTo(Alphabet, MaxAxiom), n \in 0..MaxIter}
    \cup {Config("runLSystem", RulesTree, s, n) :
        s \in SampleAxioms, n \in 0..MaxStoIter}
    \cup {Config("runLSystem", RulesTree, s, 0) :
        s \in SeqsUpTo(Alphabet, MaxAxiom)}

\* ------------------------------------------------------ pure functions
\* String.prototype.split(''): the array of the string's characters
SplitChars(str) == [k \in 1..Len(str) |-> str[k]]

\* Array.prototype.join(','), as String.prototype.concat(array) applies it
RECURSIVE JoinComma(_)
JoinComma(arr) ==
    IF Len(arr) = 0 THEN <<>>
    ELSE IF Len(arr) = 1 THEN <<arr[1]>>
    ELSE <<arr[1], ",">> \o JoinComma(Tail(arr))

isNumeric(char) == char \in Digits

\* rules[char]: the rule, if the table has one
HasRule(table, char) == char \in DOMAIN table

\* if (rule): undefined and the empty string are falsy, an array is truthy
Truthy(table, char) ==
    /\ HasRule(table, char)
    /\ (table[char].kind = "sto" \/ table[char].res # <<>>)

\* Array.isArray(rule) for a rule that exists
IsArrayRule(table, char) == HasRule(table, char) /\ table[char].kind = "sto"

\* the outer loop test i < iterations
OuterContinues_Mut(ii, n) == ii <= n
OuterContinues(ii, n) == ii < n

\* if (rand <= cumulative), rand = r / DrawRes, cumulative in hundredths
DrawSelects_Mut(r, cumulative) == r * 100 < cumulative * DrawRes
DrawSelects(r, cumulative) == r * 100 <= cumulative * DrawRes

\* the selection loop over k, from alternative k with the running sum
RECURSIVE SelectFrom(_, _, _, _)
SelectFrom(alts, r, k, cumulative) ==
    IF k > Len(alts) THEN alts[Len(alts)].res
    ELSE IF DrawSelects(r, cumulative + alts[k].prob) THEN alts[k].res
    ELSE SelectFrom(alts, r, k + 1, cumulative + alts[k].prob)

Selected_Mut(alts, r) == alts[Len(alts)].res \o SelectFrom(alts, r, 1, 0)
Selected(alts, r) == SelectFrom(alts, r, 1, 0)

\* the replacement a deterministic rule contributes
DetReplacement_Mut(rule) == Tail(rule.res)
DetReplacement(rule) == SplitChars(rule.res)

\* the symbol the no-rule branch pushes
Kept_Mut(char) == IF char = "]" THEN <<>> ELSE <<char>>
Kept(char) == <<char>>

\* ------------------------------------------------------------ rewriter
RunInit ==
    \E c \in RunConfigs :
        /\ rvariant = c.variant
        /\ rules = c.rules
        /\ iterations = c.iterations
        /\ startString = c.startString
        /\ grammarArray = SplitChars(c.startString)
        /\ doubleBuffer = <<>>
        /\ dbType = "array"
        /\ i = 0
        /\ j = 0
        /\ rand = -1
        /\ rpc = "loop"

InRound ==
    /\ rpc = "loop"
    /\ OuterContinues(i, iterations)
    /\ j < Len(grammarArray)

char == grammarArray[j + 1]

NewStyle == rvariant \in {"part000", "runLSystem"}

\* rule is an array of alternatives: draw and select
RunStochastic ==
    /\ UNCHANGED <<tvars, bufvars, bvars, svars>>
    /\ InRound
    /\ NewStyle
    /\ IsArrayRule(rules, char)
    /\ \E r \in 0..(DrawRes - 1) :
        /\ rand' = r
        /\ doubleBuffer' =
             doubleBuffer \o SplitChars(Selected(rules[char].alts, r))
    /\ j' = j + 1
    /\ UNCHANGED <<rvariant, rules, iterations, startString, grammarArray,
                   dbType, i, rpc>>

\* rule is a string (run of part_000 only)
RunDeterministic ==
    /\ UNCHANGED <<tvars, bufvars, bvars, svars>>
    /\ InRound
    /\ rvariant = "part000"
    /\ Truthy(rules, char)
    /\ ~IsArrayRule(rules, char)
    /\ doubleBuffer' = doubleBuffer \o DetReplacement(rules[char])
    /\ j' = j + 1
    /\ UNCHANGED <<rvariant, rules, iterations, startString, grammarArray,
                   dbType, i, rand, rpc>>

\* no rule: doubleBuffer.push(char)
RunKeep ==
    /\ UNCHANGED <<tvars, bufvars, bvars, svars>>
    /\ InRound
    /\ NewStyle
    /\ \/ (rvariant = "part000" /\ ~Truthy(rules, char))
       \/ (rvariant = "runLSystem" /\ ~IsArrayRule(rules, char))
    /\ doubleBuffer' = doubleBuffer \o Kept(char)
    /\ j' = j + 1
    /\ UNCHANGED <<rvariant, rules, iterations, startString, grammarArray,
                   dbType, i, rand, rpc>>

\* grammarArray = [...doubleBuffer]; doubleBuffer = []
RunSwap_Mut ==
    /\ UNCHANGED <<tvars, bufvars, bvars, svars>>
    /\ rpc = "loop"
    /\ NewStyle
    /\ OuterContinues(i, iterations)
    /\ j = Len(grammarArray)
    /\ grammarArray' = doubleBuffer
    /\ doubleBuffer' = doubleBuffer
    /\ i' = i + 1
    /\ j' = 0
    /\ UNCHANGED <<rvariant, rules, iterations, startString, dbType, rand,
                   rpc>>
RunSwap ==
    /\ UNCHANGED <<tvars, bufvars, bvars, svars>>
    /\ rpc = "loop"
    /\ NewStyle
    /\ OuterContinues(i, iterations)
    /\ j = Len(grammarArray)
    /\ grammarArray' = doubleBuffer
    /\ doubleBuffer' = <<>>
    /\ i' = i + 1
    /\ j' = 0
    /\ UNCHANGED <<rvariant, rules, iterations, startString, dbType, rand,
                   rpc>>

\* oldfiles: a digit is looked up as rules[parseInt(char)] and split
OldNumeric ==
    /\ UNCHANGED <<tvars, bufvars, bvars, svars>>
    /\ InRound
    /\ rvariant = "oldfiles"
    /\ isNumeric(char)
    /\ IF ~HasRule(rules, char)
       THEN /\ rpc' = "threw"
            /\ UNCHANGED <<doubleBuffer, dbType, j>>
       ELSE LET rule == SplitChars(rules[char].res) IN
            /\ IF Len(doubleBuffer) = 0
               THEN doubleBuffer' = rule /\ dbType' = "array"
               ELSE IF dbType = "array"
               THEN doubleBuffer' = doubleBuffer \o rule
                    /\ dbType' = "array"
               ELSE doubleBuffer' = doubleBuffer \o JoinComma(rule)
                    /\ dbType' = "string"
            /\ j' = j + 1
            /\ rpc' = rpc
    /\ UNCHANGED <<rvariant, rules, iterations, startString, grammarArray,
                   i, rand>>

\* oldfiles: any other symbol; an empty buffer is replaced by the string
OldOther ==
    /\ UNCHANGED <<tvars, bufvars, bvars, svars>>
    /\ InRound
    /\ rvariant = "oldfiles"
    /\ ~isNumeric(char)
    /\ IF Len(doubleBuffer) = 0
       THEN doubleBuffer' = <<char>> /\ dbType' = "string"
       ELSE doubleBuffer' = doubleBuffer \o <<char>> /\ dbType' = dbType
    /\ j' = j + 1
    /\ UNCHANGED <<rvariant, rules, iterations, startString, grammarArray,
                   i, rand, rpc>>

\* oldfiles: grammarArray.length = 0; push(...doubleBuffer);
\* doubleBuffer.length = 0 (a TypeError in strict mode on a string)
OldSwap ==
    /\ UNCHANGED <<tvars, bufvars, bvars, svars>>
    /\ rpc = "loop"
    /\ rvariant = "oldfiles"
    /\ OuterContinues(i, iterations)
    /\ j = Len(grammarArray)
    /\ grammarArray' = doubleBuffer
    /\ IF dbType = "string"
       THEN /\ rpc' = "threw"
            /\ UNCHANGED <<doubleBuffer, dbType, i, j>>
       ELSE /\ doubleBuffer' = <<>>
            /\ i' = i + 1
            /\ j' = 0
            /\ UNCHANGED <<dbType, rpc>>
    /\ UNCHANGED <<rvariant, rules, iterations, startString, rand>>

\* return grammarArray
RunReturn ==
    /\ UNCHANGED <<tvars, bufvars, bvars, svars>>
    /\ rpc = "loop"
    /\ ~OuterContinues(i, iterations)
    /\ rpc' = "returned"
    /\ UNCHANGED <<rvariant, rules, iterations, startString, grammarArray,
                   doubleBuffer, dbType, i, j, rand>>

RunNext ==
    \/ RunStochastic
    \/ RunDeterministic
    \/ RunKeep
    \/ RunSwap
    \/ OldNumeric
    \/ OldOther
    \/ OldSwap
    \/ RunReturn

\* --------------------------------------------------------- number values
\* A float is kept as the exact history that determines it: a base value
\* in hundredths and the sequence of terms added to it, in order.
Float(base) == [tag |-> "num", base |-> base, terms |-> <<>>]
Undefined == [tag |-> "undefined", base |-> 0, terms |-> <<>>]
NaN == [tag |-> "NaN", base |-> 0, terms |-> <<>>]

\* f + term
AddTerm(f, term) ==
    IF f.tag = "num" THEN [f EXCEPT !.terms = Append(@, term)] ELSE NaN

\* an angle of the oldfiles turtle: a number in tenths of a degree, or
\* undefined / NaN
JNum(v) == [tag |-> "num", v |-> v]
JUndefined == [tag |-> "undefined", v |-> 0]
JNaN == [tag |-> "NaN", v |-> 0]
JAdd(a, n) == IF a.tag = "num" THEN JNum(a.v + n) ELSE JNaN

Abs(n) == IF n < 0 THEN -n ELSE n

RECURSIVE GCD(_, _)
GCD(a, b) == IF b = 0 THEN a ELSE GCD(b, a % b)

\* exact rationals <<numerator, denominator>> in lowest terms
Norm(n, d) ==
    LET g == GCD(Abs(n), Abs(d)) IN
    IF g = 0 THEN <<n, d>> ELSE <<n \div g, d \div g>>
RatMul(q, a, b) == Norm(q[1] * a, q[2] * b)

\* Array.prototype.pop(): the last element, undefined on an empty array
PopValue(arr, undef) == IF Len(arr) = 0 THEN undef ELSE arr[Len(arr)]
PopRest(arr) == IF Len(arr) = 0 THEN arr ELSE SubSeq(arr, 1, Len(arr) - 1)

\* ------------------------------------------------- geometry emitters
Buffers(pts, bry, idx) == [points |-> pts, bary |-> bry, indices |-> idx]

\* addLine(start, end)
addLine_Mut(pts, start, end) ==
    pts \o <<end[1], end[2], end[3], start[1], start[2], start[3]>>
addLine(pts, start, end) ==
    pts \o <<start[1], start[2], start[3], end[1], end[2], end[3]>>

\* addColor(c): the colour once per vertex of the segment
addColor_Mut(cols, c) == cols \o <<c[1], c[2], c[3]>>
addColor(cols, c) == cols \o <<c[1], c[2], c[3], c[1], c[2], c[3]>>

\* let nverts = points.length / 3
nverts_Mut(pts) == Len(pts)
nverts(pts) == Len(pts) \div 3

\* the nine bary.push calls of addTriangle, in order
BaryTriples_Mut == <<1, 0, 0, 0, 1, 0, 0, 1, 0>>
BaryTriples == <<1, 0, 0, 0, 1, 0, 0, 0, 1>>

\* addTriangle(x0,y0,z0, x1,y1,z1, x2,y2,z2)
addTriangle(buf, v0, v1, v2) ==
    LET n == nverts(buf.points) IN
    Buffers(buf.points \o <<v0[1], v0[2], v0[3], v1[1], v1[2], v1[3],
                            v2[1], v2[2], v2[3]>>,
            buf.bary \o BaryTriples,
            buf.indices \o <<n, n + 1, n + 2>>)

\* makeGroundPlane(size, y) with the half size and the height in hundredths
makeGroundPlane(buf, half, y) ==
    LET a == <<Float(-half), Float(y), Float(-half)>>
        b == <<Float(half), Float(y), Float(-half)>>
        c == <<Float(-half), Float(y), Float(half)>>
        d == <<Float(half), Float(y), Float(half)>>
    IN addTriangle(addTriangle(buf, a, b, c), b, d, c)

\* sub(v1, v2) and cross(a, b) on vectors of integers
sub(v1, v2) == <<v1[1] - v2[1], v1[2] - v2[2], v1[3] - v2[3]>>
cross(a, b) ==
    <<a[2] * b[3] - a[3] * b[2],
      a[3] * b[1] - a[1] * b[3],
      a[1] * b[2] - a[2] * b[1]>>

\* Math.abs(dir[1]) > 0.9 for dir = normalize(axis): axis[1]^2 > 0.81 * len^2
\* (normalize returns [0,0,0] for a zero axis, which is not above 0.9)
DirIsVertical(axis) ==
    100 * axis[2] * axis[2]
        > 81 * (axis[1] * axis[1] + axis[2] * axis[2] + axis[3] * axis[3])

\* aux = [0, 1, 0]; if (Math.abs(dir[1]) > 0.9) aux = [1, 0, 0]
aux_Mut(axis) == <<0, 1, 0>>
aux(axis) == IF DirIsVertical(axis) THEN <<1, 0, 0>> ELSE <<0, 1, 0>>

\* right and up of makeBranchSegment before normalize divides them by their
\* lengths: cross(dir, aux) and cross(right, dir) scaled by positive factors
right(axis) == cross(axis, aux(axis))
up(axis) == cross(right(axis), axis)
\* add(p, r) for the ring offset r at angle k * angleStep: p[ax] plus
\* radius * (cos * right[ax] + sin * up[ax]); the frame is fixed by q1, q2
RingVertex(p, q1, q2, rad, divs, k) ==
    [ax \in 1..3 |->
        AddTerm(p[ax], <<"ring", q1, q2, rad, divs, k, ax>>)]

\* the loop test i < radialDivs
BranchContinues_Mut(ii, divs) == ii <= divs
BranchContinues(ii, divs) == ii < divs

\* one pass through the loop body of makeBranchSegment: the quad of
\* division ii as two triangles
BranchQuad(buf, q1, q2, rad, divs, ii) ==
    LET v0 == RingVertex(q1, q1, q2, rad, divs, ii)
        v1 == RingVertex(q1, q1, q2, rad, divs, ii + 1)
        v2 == RingVertex(q2, q1, q2, rad, divs, ii)
        v3 == RingVertex(q2, q1, q2, rad, divs, ii + 1)
    IN addTriangle(addTriangle(buf, v0, v1, v2), v1, v3, v2)

RECURSIVE BranchFrom(_, _, _, _, _, _)
BranchFrom(buf, q1, q2, rad, divs, ii) ==
    IF BranchContinues(ii, divs)
    THEN BranchFrom(BranchQuad(buf, q1, q2, rad, divs, ii),
                    q1, q2, rad, divs, ii + 1)
    ELSE buf

\* a whole call makeBranchSegment(p1, p2, radius, radialDivs)
makeBranchSegment(buf, q1, q2, rad, divs) ==
    BranchFrom(buf, q1, q2, rad, divs, 0)

\* ------------------------------------------- components that are at rest
RunIdle ==
    /\ rvariant = "none"
    /\ rules = RulesFF
    /\ iterations = 0
    /\ startString = <<>>
    /\ doubleBuffer = <<>>
    /\ dbType = "array"
    /\ i = 0
    /\ j = 0
    /\ rand = -1
    /\ rpc = "idle"

TurtleIdle ==
    /\ tvariant = "none"
    /\ turtle = [i |-> 0]
    /\ angleToUse = 0
    /\ subdivisions = 0
    /\ tpc = "idle"
    /\ hist = <<>>

BranchIdle ==
    /\ p1 = <<>>
    /\ p2 = <<>>
    /\ radius = <<0, 1>>
    /\ radialDivs = 0
    /\ bi = 0
    /\ bpc = "idle"
    /\ before = Buffers(<<>>, <<>>, <<>>)

BuffersEmpty ==
    /\ points = <<>>
    /\ colors = <<>>
    /\ bary = <<>>
    /\ indices = <<>>

\* ------------------------------------------------------ turtle inputs
PlantAlphabet == {"F", "X", "+", "-", "[", "]", "A"}
OldAlphabet == {"0", "1", "[", "]", "+"}
TreeAlphabet == {"F", "+", "-", "&", "^", "[", "]", "<"}
SierpinskiAlphabet == {"A", "B", "+", "-", "X", "]"}

\* "F[+F][-F]"
SampleBranches == <<"F", "[", "+", "F", "]", "[", "-", "F", "]">>
\* "F[+[F]-X]F"
SampleNested == <<"F", "[", "+", "[", "F", "]", "-", "X", "]", "F">>
\* "1[0]0", one round of the oldfiles plant grammar
SampleOldPlant == <<"1", "[", "0", "]", "0">>
\* "F[[F]^F]&F"
SampleTree == <<"F", "[", "[", "F", "]", "^", "F", "]", "&", "F">>

\* angleToUse as createGrammar sets it (25.0, 20.0, 25.7, 60.0), in tenths
PlantAngles == {250, 200, 257, 600}

PlantStart ==
    [x |-> Float(0), y |-> Float(-80), angle |-> 900, z |-> Float(25),
     stack |-> <<>>, i |-> 0]

\* drawSierpinski: angle 0, x = y = -0.4, z = 0.25; it keeps no stack
SierpinskiStart ==
    [x |-> Float(-40), y |-> Float(-40), angle |-> 0, z |-> Float(25),
     stack |-> <<>>, i |-> 0]

OldStart ==
    [positions |-> <<>>, angles |-> <<>>, angle |-> JNum(0),
     position |-> <<Float(0), Float(0), Float(25)>>,
     posx |-> Float(0), posy |-> Float(0), i |-> 0]

TreeStart ==
    [x |-> Float(0), y |-> Float(-100), z |-> Float(0),
     angleX |-> 0, angleY |-> 0, angleZ |-> 0,
     step |-> <<1, 5>>, radius |-> <<3, 100>>, stack |-> <<>>, i |-> 0]

\* the turtle's pose: its locals without the loop index and the stacks
Pose(t) ==
    [f \in DOMAIN t \ {"i", "stack", "positions", "angles"} |-> t[f]]

Snapshot(t, pts) == [pose |-> Pose(t), np |-> Len(pts)]

TurtleInit ==
    /\ \/ /\ tvariant = "part000"
          /\ grammarArray \in SeqsUpTo(PlantAlphabet, MaxCmds)
                                \cup {SampleBranches, SampleNested}
          /\ angleToUse \in PlantAngles
          /\ subdivisions = 0
          /\ turtle = PlantStart
       \/ /\ tvariant = "oldfiles"
          /\ grammarArray \in SeqsUpTo(OldAlphabet, MaxCmds)
                                \cup {SampleOldPlant}
          /\ angleToUse = 450
          /\ subdivisions = 0
          /\ turtle = OldStart
       \/ /\ tvariant = "sierpinski"
          /\ grammarArray \in SeqsUpTo(SierpinskiAlphabet, MaxCmds)
          /\ angleToUse = 600
          /\ subdivisions = 0
          /\ turtle = SierpinskiStart
       \/ /\ tvariant = "tree3d"
          /\ grammarArray \in SeqsUpTo(TreeAlphabet, MaxCmds)
                                \cup {SampleBranches, SampleTree}
          /\ angleToUse = 225
          /\ subdivisions \in 1..MaxSubdiv
          /\ turtle = TreeStart
    /\ tpc = "walk"
    /\ hist = <<Snapshot(turtle, <<>>)>>
    /\ BuffersEmpty

Walking == tpc = "walk" /\ turtle.i < Len(grammarArray)

cmd == grammarArray[turtle.i + 1]

\* the frame of a turtle step: the step moved the turtle to t, wrote pts
Advance(t, pts) ==
    /\ turtle' = [t EXCEPT !.i = @ + 1]
    /\ points' = pts
    /\ hist' = Append(hist, Snapshot(t, pts))
    /\ UNCHANGED <<tvariant, grammarArray, angleToUse, subdivisions, tpc>>
    /\ UNCHANGED <<rvariant, rules, iterations, startString, doubleBuffer,
                   dbType, i, j, rand, rpc>>
    /\ UNCHANGED <<bvars, svars>>

\* the interpreter stops with a TypeError
Throw ==
    /\ tpc' = "threw"
    /\ UNCHANGED <<tvariant, turtle, grammarArray, angleToUse, subdivisions,
                   hist>>
    /\ UNCHANGED <<rvariant, rules, iterations, startString, doubleBuffer,
                   dbType, i, j, rand, rpc>>
    /\ UNCHANGED <<bufvars, bvars, svars>>

\* ------------------------------------------- drawPlant of part_000
PlantDraws_Mut(c) == c = "F"
PlantDraws(c) == c \in {"F", "X"}

\* the state `]` restores
PlantRestore_Mut(t, state) == [t EXCEPT !.x = state.x, !.y = state.y]
PlantRestore(t, state) ==
    [t EXCEPT !.x = state.x, !.y = state.y, !.angle = state.angle]

\* case 'F', case 'X': a segment to the new tip
PlantDraw ==
    /\ Walking /\ tvariant = "part000" /\ PlantDraws(cmd)
    /\ LET nextX == AddTerm(turtle.x, <<"cos", turtle.angle>>)
           nextY == AddTerm(turtle.y, <<"sin", turtle.angle>>)
       IN /\ colors' = addColor(colors, <<55, 27, 7>>)
          /\ Advance([turtle EXCEPT !.x = nextX, !.y = nextY],
                     addLine(points, <<turtle.x, turtle.y, turtle.z>>,
                                     <<nextX, nextY, turtle.z>>))
    /\ UNCHANGED <<bary, indices>>

\* case '+'
PlantLeft ==
    /\ Walking /\ tvariant = "part000" /\ cmd = "+"
    /\ Advance([turtle EXCEPT !.angle = @ + angleToUse], points)
    /\ UNCHANGED <<colors, bary, indices>>

\* case '-'
PlantRight ==
    /\ Walking /\ tvariant = "part000" /\ cmd = "-"
    /\ Advance([turtle EXCEPT !.angle = @ - angleToUse], points)
    /\ UNCHANGED <<colors, bary, indices>>

\* case '[': stack.push({x, y, angle})
PlantPush ==
    /\ Walking /\ tvariant = "part000" /\ cmd = "["
    /\ Advance([turtle EXCEPT !.stack =
                  Append(@, [x |-> turtle.x, y |-> turtle.y,
                             angle |-> turtle.angle])], points)
    /\ UNCHANGED <<colors, bary, indices>>

\* case ']': state = stack.pop(); reading state.x of undefined throws
PlantPop ==
    /\ Walking /\ tvariant = "part000" /\ cmd = "]"
    /\ IF Len(turtle.stack) = 0
       THEN Throw
       ELSE /\ Advance([PlantRestore(turtle, PopValue(turtle.stack, 0))
                           EXCEPT !.stack = PopRest(turtle.stack)], points)
            /\ UNCHANGED <<colors, bary, indices>>

\* default: ignored
PlantIgnore ==
    /\ Walking /\ tvariant = "part000"
    /\ ~PlantDraws(cmd) /\ cmd \notin {"+", "-", "[", "]"}
    /\ Advance(turtle, points)
    /\ UNCHANGED <<colors, bary, indices>>

\* ------------------------------------------- drawSierpinski of part_000
\* cmd === 'A' || cmd === 'B': a segment to the new tip, red for A and
\* blue for B
SierpinskiDraw ==
    /\ Walking /\ tvariant = "sierpinski" /\ cmd \in {"A", "B"}
    /\ LET nextX == AddTerm(turtle.x, <<"cos", turtle.angle>>)
           nextY == AddTerm(turtle.y, <<"sin", turtle.angle>>)
       IN /\ colors' = addColor(colors, IF cmd = "A" THEN <<100, 30, 30>>
                                        ELSE <<30, 30, 100>>)
          /\ Advance([turtle EXCEPT !.x = nextX, !.y = nextY],
                     addLine(points, <<turtle.x, turtle.y, turtle.z>>,
                                     <<nextX, nextY, turtle.z>>))
    /\ UNCHANGED <<bary, indices>>

\* cmd === '+', cmd === '-'
SierpinskiTurn ==
    /\ Walking /\ tvariant = "sierpinski" /\ cmd \in {"+", "-"}
    /\ Advance([turtle EXCEPT !.angle =
                  IF cmd = "+" THEN @ + angleToUse ELSE @ - angleToUse],
               points)
    /\ UNCHANGED <<colors, bary, indices>>

\* no branch of the if-chain matches
SierpinskiIgnore ==
    /\ Walking /\ tvariant = "sierpinski"
    /\ cmd \notin {"A", "B", "+", "-"}
    /\ Advance(turtle, points)
    /\ UNCHANGED <<colors, bary, indices>>

\* ------------------------------------------- drawPlant of oldfiles
OldAllNum(t) ==
    /\ t.position[1].tag = "num"
    /\ t.position[2].tag = "num"
    /\ t.posy.tag = "num"
    /\ t.angle.tag = "num"

\* rotate(position, [position[0], posy + initial_length], angle), in exact
\* arithmetic: position + initial_length * (sin(angle), cos(angle))
OldTip(t) ==
    IF OldAllNum(t)
    THEN <<AddTerm(t.position[1], <<"sin", t.angle.v>>),
           AddTerm(t.position[2], <<"cos", t.angle.v>>),
           t.position[3]>>
    ELSE <<NaN, NaN, t.position[3]>>

OldDrawTo(color) ==
    LET newPosition == OldTip(turtle) IN
    /\ colors' = addColor(colors, color)
    /\ Advance([turtle EXCEPT !.position = newPosition,
                              !.posx = newPosition[1],
                              !.posy = newPosition[2]],
               addLine(points, turtle.position, newPosition))
    /\ UNCHANGED <<bary, indices>>

\* case '0': a line ending in a leaf
OldDrawLeaf ==
    /\ Walking /\ tvariant = "oldfiles" /\ cmd = "0"
    /\ OldDrawTo(<<20, 80, 30>>)

\* case '1': a line
OldDrawLine ==
    /\ Walking /\ tvariant = "oldfiles" /\ cmd = "1"
    /\ OldDrawTo(<<70, 40, 20>>)

\* case '[': push position and angle, turn left 45 degrees
OldPush ==
    /\ Walking /\ tvariant = "oldfiles" /\ cmd = "["
    /\ Advance([turtle EXCEPT
                  !.positions = @ \o <<turtle.posy, turtle.posx>>,
                  !.angles = Append(@, turtle.angle),
                  !.angle = JAdd(@, -450)], points)
    /\ UNCHANGED <<colors, bary, indices>>

\* case ']': pop position and angle, turn right 45 degrees
OldPop ==
    /\ Walking /\ tvariant = "oldfiles" /\ cmd = "]"
    /\ LET posx == PopValue(turtle.positions, Undefined)
           rest == PopRest(turtle.positions)
           posy == PopValue(rest, Undefined)
       IN Advance([turtle EXCEPT
                     !.posx = posx,
                     !.posy = posy,
                     !.positions = PopRest(rest),
                     !.position = <<posx, posy, turtle.position[3]>>,
                     !.angle = JAdd(PopValue(turtle.angles, JUndefined), 450),
                     !.angles = PopRest(@)], points)
    /\ UNCHANGED <<colors, bary, indices>>

\* default: break
OldIgnore ==
    /\ Walking /\ tvariant = "oldfiles"
    /\ cmd \notin {"0", "1", "[", "]"}
    /\ Advance(turtle, points)
    /\ UNCHANGED <<colors, bary, indices>>

\* ------------------------------------------- makeStochasticTree
\* step *= 0.9, radius *= 0.8 on push; step /= 0.9, radius /= 0.8 on pop
PushStep(step) == RatMul(step, 9, 10)
PushRadius_Mut(rad) == RatMul(rad, 9, 10)
PushRadius(rad) == RatMul(rad, 8, 10)
PopStep_Mut(step) == RatMul(step, 10, 8)
PopStep(step) == RatMul(step, 10, 9)
PopRadius(rad) == RatMul(rad, 10, 8)

\* component c of rotateY(rotateX(rotateZ([0,1,0], angleZ), angleX), angleY)
\* times step
DirTerm(t, c) ==
    <<"dir", c, t.angleZ, t.angleX, t.angleY, t.step[1], t.step[2]>>

\* case 'F': a branch segment to the new end point
TreeDraw ==
    /\ Walking /\ tvariant = "tree3d" /\ cmd = "F"
    /\ LET endX == AddTerm(turtle.x, DirTerm(turtle, 1))
           endY == AddTerm(turtle.y, DirTerm(turtle, 2))
           endZ == AddTerm(turtle.z, DirTerm(turtle, 3))
           buf == makeBranchSegment(Buffers(points, bary, indices),
                                    <<turtle.x, turtle.y, turtle.z>>,
                                    <<endX, endY, endZ>>,
                                    turtle.radius, subdivisions)
       IN /\ bary' = buf.bary
          /\ indices' = buf.indices
          /\ Advance([turtle EXCEPT !.x = endX, !.y = endY, !.z = endZ],
                     buf.points)
    /\ UNCHANGED colors

\* case '+' and case '-': yaw
TreeYaw ==
    /\ Walking /\ tvariant = "tree3d" /\ cmd \in {"+", "-"}
    /\ Advance([turtle EXCEPT !.angleZ =
                  IF cmd = "+" THEN @ + angleToUse ELSE @ - angleToUse],
               points)
    /\ UNCHANGED <<colors, bary, indices>>

\* case '&' and case '^': pitch
TreePitch ==
    /\ Walking /\ tvariant = "tree3d" /\ cmd \in {"&", "^"}
    /\ Advance([turtle EXCEPT !.angleX =
                  IF cmd = "&" THEN @ + angleToUse ELSE @ - angleToUse],
               points)
    /\ UNCHANGED <<colors, bary, indices>>

\* case '[': stack.push({x, y, z, angleX, angleY, angleZ}), then shrink
TreePush ==
    /\ Walking /\ tvariant = "tree3d" /\ cmd = "["
    /\ Advance([turtle EXCEPT
                  !.stack = Append(@, [x |-> turtle.x, y |-> turtle.y,
                                       z |-> turtle.z,
                                       angleX |-> turtle.angleX,
                                       angleY |-> turtle.angleY,
                                       angleZ |-> turtle.angleZ]),
                  !.step = PushStep(@),
                  !.radius = PushRadius(@)], points)
    /\ UNCHANGED <<colors, bary, indices>>

\* case ']': s = stack.pop(); reading s.x of undefined throws
TreePop ==
    /\ Walking /\ tvariant = "tree3d" /\ cmd = "]"
    /\ IF Len(turtle.stack) = 0
       THEN Throw
       ELSE LET s == PopValue(turtle.stack, 0) IN
            /\ Advance([turtle EXCEPT
                          !.x = s.x, !.y = s.y, !.z = s.z,
                          !.angleX = s.angleX, !.angleY = s.angleY,
                          !.angleZ = s.angleZ,
                          !.stack = PopRest(@),
                          !.step = PopStep(@),
                          !.radius = PopRadius(@)], points)
            /\ UNCHANGED <<colors, bary, indices>>

\* no case matches
TreeIgnore_Mut ==
    /\ Walking /\ tvariant = "tree3d"
    /\ cmd \notin {"F", "+", "-", "&", "^", "[", "]"}
    /\ Advance([turtle EXCEPT !.angleY = @ + angleToUse], points)
    /\ UNCHANGED <<colors, bary, indices>>
TreeIgnore ==
    /\ Walking /\ tvariant = "tree3d"
    /\ cmd \notin {"F", "+", "-", "&", "^", "[", "]"}
    /\ Advance(turtle, points)
    /\ UNCHANGED <<colors, bary, indices>>

\* the loop of an interpreter ends
TurtleReturn ==
    /\ tpc = "walk"
    /\ turtle.i = Len(grammarArray)
    /\ tpc' = "done"
    /\ UNCHANGED <<tvariant, turtle, grammarArray, angleToUse, subdivisions,
                   hist>>
    /\ UNCHANGED <<rvariant, rules, iterations, startString, doubleBuffer,
                   dbType, i, j, rand, rpc>>
    /\ UNCHANGED <<bufvars, bvars, svars>>

TurtleNext ==
    \/ PlantDraw
    \/ PlantLeft
    \/ PlantRight
    \/ PlantPush
    \/ PlantPop
    \/ PlantIgnore
    \/ SierpinskiDraw
    \/ SierpinskiTurn
    \/ SierpinskiIgnore
    \/ OldDrawLeaf
    \/ OldDrawLine
    \/ OldPush
    \/ OldPop
    \/ OldIgnore
    \/ TreeDraw
    \/ TreeYaw
    \/ TreePitch
    \/ TreePush
    \/ TreePop
    \/ TreeIgnore
    \/ TurtleReturn

\* ------------------------------------------- makeBranchSegment, stepwise
Coords == (-MaxCoord)..MaxCoord

\* a point with integer coordinates
Point(a, b, c) == <<Float(100 * a), Float(100 * b), Float(100 * c)>>

BranchStarts == {Point(0, 0, 0), Point(0, -1, 0)}
BranchEnds == {Point(a, b, c) : a \in Coords, b \in Coords, c \in Coords}
BranchRadii == {<<-3, 100>>, <<0, 1>>, <<3, 100>>}

EmptyBuffers == Buffers(<<>>, <<>>, <<>>)

BranchInit ==
    /\ p1 \in BranchStarts
    /\ p2 \in BranchEnds
    /\ radius \in BranchRadii
    /\ radialDivs \in 0..MaxDivs
    /\ before \in {EmptyBuffers, makeGroundPlane(EmptyBuffers, 200, -100)}
    /\ points = before.points
    /\ bary = before.bary
    /\ indices = before.indices
    /\ colors = <<>>
    /\ bi = 0
    /\ bpc = "loop"

\* one pass through the loop body
BranchLoop ==
    /\ bpc = "loop"
    /\ BranchContinues(bi, radialDivs)
    /\ LET buf == BranchQuad(Buffers(points, bary, indices),
                             p1, p2, radius, radialDivs, bi)
       IN /\ points' = buf.points
          /\ bary' = buf.bary
          /\ indices' = buf.indices
    /\ bi' = bi + 1
    /\ UNCHANGED <<p1, p2, radius, radialDivs, bpc, before, colors>>
    /\ UNCHANGED <<rvars, tvars, svars>>

\* the loop ends and the function returns
BranchReturn ==
    /\ bpc = "loop"
    /\ ~BranchContinues(bi, radialDivs)
    /\ bpc' = "returned"
    /\ UNCHANGED <<p1, p2, radius, radialDivs, bi, before>>
    /\ UNCHANGED <<rvars, tvars, bufvars, svars>>

BranchNext ==
    \/ BranchLoop
    \/ BranchReturn

\* ------------------------------------------------------ whole calls: run
\* the depth bound of the program-level specifications
MaxGen == 2

\* the draws of Math.random() the program-level specifications follow: the
\* smallest and the largest
SessionDraws == {0, DrawRes - 1}

\* JavaScript null
Null == <<"null">>

\* what one symbol contributes in one pass through the inner loop of run
\* (part_000) or runLSystem
SymbolResults(v, table, c) ==
    IF IsArrayRule(table, c)
    THEN {SplitChars(Selected(table[c].alts, r)) : r \in SessionDraws}
    ELSE IF v = "part000" /\ Truthy(table, c)
    THEN {DetReplacement(table[c])}
    ELSE {Kept(c)}

\* what the inner loop can append for the symbols lo..hi, in order (the
\* range is halved to keep the evaluation shallow)
RECURSIVE RoundResults(_, _, _, _, _)
RoundResults(v, table, seq, lo, hi) ==
    IF lo > hi THEN {<<>>}
    ELSE IF lo = hi THEN SymbolResults(v, table, seq[lo])
    ELSE LET mid == (lo + hi) \div 2 IN
         {h \o t : h \in RoundResults(v, table, seq, lo, mid),
                   t \in RoundResults(v, table, seq, mid + 1, hi)}

\* the sequences the outer loop can return, from round ii on
RECURSIVE RunFrom(_, _, _, _, _)
RunFrom(v, table, seq, ii, n) ==
    IF OuterContinues(ii, n)
    THEN UNION {RunFrom(v, table, s, ii + 1, n) :
                    s \in RoundResults(v, table, seq, 1, Len(seq))}
    ELSE {seq}

\* run(iterations, startString) of part_000
run(table, n, start) == RunFrom("part000", table, SplitChars(start), 0, n)

\* runLSystem(iterations, startString): the table is installed by the call
runLSystem(n, start) ==
    RunFrom("runLSystem", RulesTree, SplitChars(start), 0, n)

\* one pass through the inner loop body of run (oldfiles) on symbol c; st
\* is the buffer, its type and whether a TypeError was thrown
OldSymbol(table, st, c) ==
    IF isNumeric(c)
    THEN IF ~HasRule(table, c) THEN [st EXCEPT !.threw = TRUE]
         ELSE LET rule == SplitChars(table[c].res) IN
              IF Len(st.db) = 0
              THEN [st EXCEPT !.db = rule, !.dbType = "array"]
              ELSE IF st.dbType = "array"
              THEN [st EXCEPT !.db = @ \o rule]
              ELSE [st EXCEPT !.db = @ \o JoinComma(rule)]
    ELSE IF Len(st.db) = 0
         THEN [st EXCEPT !.db = <<c>>, !.dbType = "string"]
         ELSE [st EXCEPT !.db = @ \o <<c>>]

\* the inner loop over the symbols lo..hi, in order
RECURSIVE OldRoundFrom(_, _, _, _, _)
OldRoundFrom(table, seq, lo, hi, st) ==
    IF lo > hi \/ st.threw THEN st
    ELSE IF lo = hi THEN OldSymbol(table, st, seq[lo])
    ELSE LET mid == (lo + hi) \div 2 IN
         OldRoundFrom(table, seq, mid + 1, hi,
                      OldRoundFrom(table, seq, lo, mid, st))

\* run(iterations, startString) of oldfiles from round ii on: the returned
\* array, or the array at the moment a TypeError left the function
RECURSIVE OldRunFrom(_, _, _, _)
OldRunFrom(table, seq, ii, n) ==
    IF OuterContinues(ii, n)
    THEN LET st == OldRoundFrom(table, seq, 1, Len(seq),
                      [db |-> <<>>, dbType |-> "array", threw |-> FALSE])
         IN IF st.threw THEN [grammar |-> seq, threw |-> TRUE]
            ELSE IF st.dbType = "string"
            THEN [grammar |-> st.db, threw |-> TRUE]
            ELSE OldRunFrom(table, st.db, ii + 1, n)
    ELSE [grammar |-> seq, threw |-> FALSE]

OldRun(table, n, start) == OldRunFrom(table, SplitChars(start), 0, n)

\* ------------------------------------------------- createGrammar(type)
\* rules = { 'X': "F+[[X]-X]-F[-FX]+X", 'F': "FF" }
RulesFractal ==
    ("X" :> Det(<<"F","+","[","[","X","]","-","X","]","-","F","[","-","F",
                  "X","]","+","X">>))
       @@ ("F" :> Det(<<"F", "F">>))

\* rules = { 'X': "F[+X]F[-X]+X", 'F': "FF" }
RulesSympodial ==
    ("X" :> Det(<<"F","[","+","X","]","F","[","-","X","]","+","X">>))
       @@ ("F" :> Det(<<"F", "F">>))

\* rules = { 'A': "B-A-B", 'B': "A+B+A" }
RulesSierpinski ==
    ("A" :> Det(<<"B","-","A","-","B">>))
       @@ ("B" :> Det(<<"A","+","B","+","A">>))

\* rules = { '0': "1-0-1", '1': "0+1+0" }
RulesOldSierpinski ==
    ("0" :> Det(<<"1","-","0","-","1">>))
       @@ ("1" :> Det(<<"0","+","1","+","0">>))

\* the grammar types createGrammar names
GrammarTypes == {"fractal", "sympodial", "stochastic", "sierpinski"}

\* the selectors a caller can pass: a named type, a string that names no
\* grammar, or nothing at all
TypeInputs == GrammarTypes \cup {"coral", "undefined"}

\* rules = {...}: the table a branch of createGrammar installs over the old
InstallRules_Mut(old, new) == old @@ new
InstallRules(old, new) == new

\* what a call of createGrammar leaves: the rule table, the angle (tenths
\* of a degree), the returned sequence and whether it ended in an error
Grammar(table, angle, seq, threw) ==
    [rules |-> table, angleToUse |-> angle, grammar |-> seq,
     threw |-> threw]

\* createGrammar(type) of part_000 with the globals rules, iterations and
\* iterations2 as they are at the call
RECURSIVE createGrammar(_, _, _, _)
createGrammar(type, old, its, its2) ==
    IF type = "fractal"
    THEN LET t == InstallRules(old, RulesFractal) IN
         {Grammar(t, 250, g, FALSE) : g \in run(t, its, <<"X">>)}
    ELSE IF type = "sympodial"
    THEN LET t == InstallRules(old, RulesSympodial) IN
         {Grammar(t, 200, g, FALSE) : g \in run(t, its, <<"X">>)}
    ELSE IF type = "stochastic"
    THEN LET t == InstallRules(old, RulesStochastic) IN
         {Grammar(t, 257, g, FALSE) : g \in run(t, its, <<"F">>)}
    ELSE IF type = "sierpinski"
    THEN LET t == InstallRules(old, RulesSierpinski) IN
         {Grammar(t, 600, g, FALSE) : g \in run(t, its2, <<"A">>)}
    ELSE createGrammar("fractal", old, its, its2)

\* createGrammar(type) of oldfiles
OldCreateGrammar(type, its, its2) ==
    IF type = "sierpinski"
    THEN LET r == OldRun(RulesOldSierpinski, its2, <<"0">>) IN
         Grammar(RulesOldSierpinski, 600, r.grammar, r.threw)
    ELSE LET r == OldRun(RulesPlant, its, <<"0">>) IN
         Grammar(RulesPlant, 450, r.grammar, r.threw)

\* --------------------------------------------- whole calls: 2D drawing
\* a walk in progress: the turtle, the buffers, whether a TypeError ended it
Walk(t, pts, cols) ==
    [t |-> t, points |-> pts, colors |-> cols, threw |-> FALSE]

\* one pass through the loop body of drawPlant (part_000) on symbol c
PlantStep(w, c, ang) ==
    LET t == w.t IN
    IF PlantDraws(c)
    THEN LET nextX == AddTerm(t.x, <<"cos", t.angle>>)
             nextY == AddTerm(t.y, <<"sin", t.angle>>)
         IN [w EXCEPT !.t = [t EXCEPT !.x = nextX, !.y = nextY],
                      !.points = addLine(@, <<t.x, t.y, t.z>>,
                                            <<nextX, nextY, t.z>>),
                      !.colors = addColor(@, <<55, 27, 7>>)]
    ELSE IF c = "+" THEN [w EXCEPT !.t.angle = @ + ang]
    ELSE IF c = "-" THEN [w EXCEPT !.t.angle = @ - ang]
    ELSE IF c = "["
    THEN [w EXCEPT !.t.stack =
            Append(@, [x |-> t.x, y |-> t.y, angle |-> t.angle])]
    ELSE IF c = "]"
    THEN IF Len(t.stack) = 0 THEN [w EXCEPT !.threw = TRUE]
         ELSE [w EXCEPT !.t = [PlantRestore(t, PopValue(t.stack, 0))
                                  EXCEPT !.stack = PopRest(t.stack)]]
    ELSE w

\* the loop of an interpreter over the symbols lo..hi, in order
Stepped(n, k) == IF n.threw THEN n ELSE [n EXCEPT !.t.i = k]

RECURSIVE PlantWalk(_, _, _, _, _)
PlantWalk(w, seq, lo, hi, ang) ==
    IF lo > hi \/ w.threw THEN w
    ELSE IF lo = hi THEN Stepped(PlantStep(w, seq[lo], ang), lo)
    ELSE LET mid == (lo + hi) \div 2 IN
         PlantWalk(PlantWalk(w, seq, lo, mid, ang), seq, mid + 1, hi, ang)

\* drawPlant(grammarArray) of part_000
drawPlant(pts, cols, seq, ang) ==
    PlantWalk(Walk(PlantStart, pts, cols), seq, 1, Len(seq), ang)

\* one pass through the loop body of drawSierpinski (part_000)
SierpinskiStep(w, c, ang) ==
    LET t == w.t IN
    IF c \in {"A", "B"}
    THEN LET nextX == AddTerm(t.x, <<"cos", t.angle>>)
             nextY == AddTerm(t.y, <<"sin", t.angle>>)
         IN [w EXCEPT !.t = [t EXCEPT !.x = nextX, !.y = nextY],
                      !.points = addLine(@, <<t.x, t.y, t.z>>,
                                            <<nextX, nextY, t.z>>),
                      !.colors = addColor(@, IF c = "A"
                                             THEN <<100, 30, 30>>
                                             ELSE <<30, 30, 100>>)]
    ELSE IF c = "+" THEN [w EXCEPT !.t.angle = @ + ang]
    ELSE IF c = "-" THEN [w EXCEPT !.t.angle = @ - ang]
    ELSE w

RECURSIVE SierpinskiWalk(_, _, _, _, _)
SierpinskiWalk(w, seq, lo, hi, ang) ==
    IF lo > hi \/ w.threw THEN w
    ELSE IF lo = hi THEN Stepped(SierpinskiStep(w, seq[lo], ang), lo)
    ELSE LET mid == (lo + hi) \div 2 IN
         SierpinskiWalk(SierpinskiWalk(w, seq, lo, mid, ang),
                        seq, mid + 1, hi, ang)

\* drawSierpinski(grammarArray) of part_000
drawSierpinski(pts, cols, seq, ang) ==
    SierpinskiWalk(Walk(SierpinskiStart, pts, cols), seq, 1, Len(seq), ang)

\* drawGrammarPoints(grammarArray, type): colors = [], then the drawer
drawGrammarPoints(pts, seq, type, ang) ==
    IF type = "sierpinski" THEN drawSierpinski(pts, <<>>, seq, ang)
    ELSE drawPlant(pts, <<>>, seq, ang)

\* points = [] at the start of a regeneration
ClearPoints_Mut(pts) == pts
ClearPoints(pts) == <<>>

\* if (!type) type = 'fractal'
SelectorOrDefault(type) == IF type = "undefined" THEN "fractal" ELSE type

\* if (!colors || colors.length === 0) colors = Array(points.length).fill(1.0)
ColorsOrFill(cols, pts) ==
    IF Len(cols) = 0 THEN [k \in 1..Len(pts) |-> 100] ELSE cols

\* ------------------------------------------- components that are at rest
\* op: the entry point; type: its selector; n: the iteration count it
\* used; grammar: the sequence it interpreted or returned
NoCall == [op |-> "none", type |-> "", n |-> 0, grammar |-> <<>>]

Call(op, type, n, seq) ==
    [op |-> op, type |-> type, n |-> n, grammar |-> seq]

TreeIds == 0..2

SessionIdle ==
    /\ prog = "none"
    /\ iterations2 = 0
    /\ storedGrammar = Null
    /\ growthIterations = 0
    /\ history = [id \in TreeIds |-> <<>>]
    /\ curShape = 0
    /\ division1 = 0
    /\ reported = FALSE
    /\ last = NoCall
    /\ prev = ""

\* no call of run / runLSystem is in progress
RunAtRest ==
    /\ rvariant = "none"
    /\ startString = <<>>
    /\ doubleBuffer = <<>>
    /\ dbType = "array"
    /\ i = 0
    /\ j = 0
    /\ rand = -1
    /\ rpc = "idle"

\* ------------------------------------- the 2D page: createLSystem(type)
DetTypes == GrammarTypes \ {"stochastic"}

\* the iteration count createGrammar hands to run for a type
CountUsed(type, its, its2) == IF type = "sierpinski" THEN its2 ELSE its

\* the page after init(): the globals as initializeGrammarVars and the key
\* handler leave them, nothing generated yet
LSystemInit ==
    /\ prog \in {"lsystem", "oldfiles"}
    /\ iterations \in 0..MaxGen
    /\ iterations2 \in 0..MaxGen
    /\ rules = <<>>
    /\ grammarArray = <<>>
    /\ angleToUse = IF prog = "lsystem" THEN 250 ELSE 450
    /\ RunAtRest
    /\ tvariant = "none"
    /\ turtle = [i |-> 0]
    /\ subdivisions = 0
    /\ tpc = "idle"
    /\ hist = <<>>
    /\ BuffersEmpty
    /\ BranchIdle
    /\ storedGrammar = Null
    /\ growthIterations = 0
    /\ history = [id \in TreeIds |-> <<>>]
    /\ curShape = 0
    /\ division1 = 0
    /\ reported = FALSE
    /\ last = NoCall
    /\ prev = ""

\* createLSystem(type) of part_000, the whole call
CreateLSystem ==
    /\ prog = "lsystem"
    /\ \E type \in TypeInputs :
        LET ty == SelectorOrDefault(type) IN
        /\ (ty = "stochastic") => (iterations <= MaxStoIter)
        /\ \E g \in createGrammar(ty, rules, iterations, iterations2) :
            LET w == drawGrammarPoints(ClearPoints(points), g.grammar, ty,
                                       g.angleToUse)
            IN /\ rules' = g.rules
               /\ angleToUse' = g.angleToUse
               /\ grammarArray' = g.grammar
               /\ points' = w.points
               /\ colors' = IF w.threw THEN w.colors
                            ELSE ColorsOrFill(w.colors, w.points)
               /\ reported' = w.threw
               /\ last' = Call("createLSystem", type,
                                CountUsed(ty, iterations, iterations2),
                                g.grammar)
               /\ prev' = last.type
    /\ UNCHANGED <<rvariant, iterations, startString, doubleBuffer, dbType,
                   i, j, rand, rpc>>
    /\ UNCHANGED <<tvariant, turtle, subdivisions, tpc, hist>>
    /\ UNCHANGED <<bary, indices>>
    /\ UNCHANGED bvars
    /\ UNCHANGED <<prog, iterations2, storedGrammar, growthIterations,
                   history, curShape, division1>>

\* createGrammar(type) of oldfiles, the whole call
CreateGrammarOld ==
    /\ prog = "oldfiles"
    /\ \E type \in TypeInputs :
        LET g == OldCreateGrammar(type, iterations, iterations2) IN
        /\ rules' = g.rules
        /\ angleToUse' = g.angleToUse
        /\ grammarArray' = g.grammar
        /\ reported' = g.threw
        /\ last' = Call("createGrammar", type,
                         CountUsed(type, iterations, iterations2),
                         g.grammar)
        /\ prev' = last.type
    /\ UNCHANGED <<rvariant, iterations, startString, doubleBuffer, dbType,
                   i, j, rand, rpc>>
    /\ UNCHANGED <<tvariant, turtle, subdivisions, tpc, hist>>
    /\ UNCHANGED bufvars
    /\ UNCHANGED bvars
    /\ UNCHANGED <<prog, iterations2, storedGrammar, growthIterations,
                   history, curShape, division1>>

\* the key handler of the page assigns the global iterations or
\* iterations2 between two regenerations
SetIterations ==
    /\ prog \in {"lsystem", "oldfiles"}
    /\ \E n \in 0..MaxGen :
        \/ n # iterations /\ iterations' = n /\ iterations2' = iterations2
        \/ n # iterations2 /\ iterations2' = n /\ iterations' = iterations
    /\ UNCHANGED <<rvariant, rules, startString, grammarArray, doubleBuffer,
                   dbType, i, j, rand, rpc>>
    /\ UNCHANGED <<tvars, bufvars, bvars>>
    /\ UNCHANGED <<prog, storedGrammar, growthIterations, history, curShape,
                   division1, reported, last, prev>>

LSystemNext ==
    \/ SetIterations
    \/ CreateLSystem
    \/ CreateGrammarOld

\* -------------------------------------- whole calls: makeStochasticTree
\* a 3D walk in progress: the turtle, the buffers, whether a TypeError
\* ended it
Mesh(t, buf) ==
    [t |-> t, points |-> buf.points, bary |-> buf.bary,
     indices |-> buf.indices, threw |-> FALSE]

\* one pass through the loop body of makeStochasticTree on symbol c
TreeStep(w, c, ang, divs) ==
    LET t == w.t IN
    IF c = "F"
    THEN LET endX == AddTerm(t.x, DirTerm(t, 1))
             endY == AddTerm(t.y, DirTerm(t, 2))
             endZ == AddTerm(t.z, DirTerm(t, 3))
             buf == makeBranchSegment(Buffers(w.points, w.bary, w.indices),
                                      <<t.x, t.y, t.z>>,
                                      <<endX, endY, endZ>>, t.radius, divs)
         IN [w EXCEPT !.t = [t EXCEPT !.x = endX, !.y = endY, !.z = endZ],
                      !.points = buf.points, !.bary = buf.bary,
                      !.indices = buf.indices]
    ELSE IF c = "+" THEN [w EXCEPT !.t.angleZ = @ + ang]
    ELSE IF c = "-" THEN [w EXCEPT !.t.angleZ = @ - ang]
    ELSE IF c = "&" THEN [w EXCEPT !.t.angleX = @ + ang]
    ELSE IF c = "^" THEN [w EXCEPT !.t.angleX = @ - ang]
    ELSE IF c = "["
    THEN [w EXCEPT !.t = [t EXCEPT
            !.stack = Append(@, [x |-> t.x, y |-> t.y, z |-> t.z,
                                 angleX |-> t.angleX, angleY |-> t.angleY,
                                 angleZ |-> t.angleZ]),
            !.step = PushStep(@),
            !.radius = PushRadius(@)]]
    ELSE IF c = "]"
    THEN IF Len(t.stack) = 0 THEN [w EXCEPT !.threw = TRUE]
         ELSE LET s == PopValue(t.stack, 0) IN
              [w EXCEPT !.t = [t EXCEPT
                 !.x = s.x, !.y = s.y, !.z = s.z,
                 !.angleX = s.angleX, !.angleY = s.angleY,
                 !.angleZ = s.angleZ,
                 !.stack = PopRest(@),
                 !.step = PopStep(@),
                 !.radius = PopRadius(@)]]
    ELSE w

RECURSIVE TreeWalk(_, _, _, _, _, _)
TreeWalk(w, seq, lo, hi, ang, divs) ==
    IF lo > hi \/ w.threw THEN w
    ELSE IF lo = hi THEN Stepped(TreeStep(w, seq[lo], ang, divs), lo)
    ELSE LET mid == (lo + hi) \div 2 IN
         TreeWalk(TreeWalk(w, seq, lo, mid, ang, divs),
                  seq, mid + 1, hi, ang, divs)

\* if (!storedGrammar) generateNewTree(): the sequences the call may go on
\* with, the cached one or a fresh draw at depth n
CachedOrFresh_Mut(stored, n) == runLSystem(n, <<"F">>)
CachedOrFresh(stored, n) ==
    IF stored = Null THEN runLSystem(n, <<"F">>) ELSE {stored}

\* makeStochasticTree(subdivisions) from "let grammar = storedGrammar" on
makeStochasticTree(buf, seq, divs) ==
    TreeWalk(Mesh(TreeStart, buf), seq, 1, Len(seq), 225, divs)

\* ------------------------------------------ whole calls: solid shapes
\* radius * frac * Math.cos / Math.sin (k * angle_step), n steps a turn
OnCircle(fn, frac, k, n) == AddTerm(Float(0), <<fn, frac, k, n>>)

\* y_base + level * height_step, in hundredths for level 0
Level(level, heightdivision) ==
    IF level = 0 THEN Float(-25)
    ELSE AddTerm(Float(-25), <<"rise", level, heightdivision>>)

RimPoint(frac, k, n, y) ==
    <<OnCircle("cos", frac, k, n), y, OnCircle("sin", frac, k, n)>>

AxisPoint(y) == <<Float(0), y, Float(0)>>

\* the side loop of makeCylinder for radial division ii, from level jj on
RECURSIVE CylinderSide(_, _, _, _, _)
CylinderSide(buf, ii, jj, radialdivision, heightdivision) ==
    IF jj < heightdivision
    THEN LET y1 == Level(jj, heightdivision)
             y2 == Level(jj + 1, heightdivision)
             a1 == RimPoint(<<1, 1>>, ii, radialdivision, y1)
             a2 == RimPoint(<<1, 1>>, ii, radialdivision, y2)
             b1 == RimPoint(<<1, 1>>, ii + 1, radialdivision, y1)
             b2 == RimPoint(<<1, 1>>, ii + 1, radialdivision, y2)
         IN CylinderSide(addTriangle(addTriangle(buf, a1, a2, b2),
                                     a1, b2, b1),
                         ii, jj + 1, radialdivision, heightdivision)
    ELSE buf

RECURSIVE CylinderFrom(_, _, _, _)
CylinderFrom(buf, ii, radialdivision, heightdivision) ==
    IF ii < radialdivision
    THEN LET top == addTriangle(buf, AxisPoint(Float(25)),
                      RimPoint(<<1, 1>>, ii + 1, radialdivision, Float(25)),
                      RimPoint(<<1, 1>>, ii, radialdivision, Float(25)))
             bottom == addTriangle(top, AxisPoint(Float(-25)),
                      RimPoint(<<1, 1>>, ii, radialdivision, Float(-25)),
                      RimPoint(<<1, 1>>, ii + 1, radialdivision, Float(-25)))
         IN CylinderFrom(CylinderSide(bottom, ii, 0, radialdivision,
                                      heightdivision),
                         ii + 1, radialdivision, heightdivision)
    ELSE buf

\* makeCylinder(radialdivision, heightdivision)
makeCylinder(buf, radialdivision, heightdivision) ==
    CylinderFrom(buf, 0, radialdivision, heightdivision)

\* the side loop of makeCone for radial division ii, from level jj on;
\* the radius at level jj is radius * (heightdivision - jj) / heightdivision
RECURSIVE ConeSide(_, _, _, _, _)
ConeSide(buf, ii, jj, radialdivision, heightdivision) ==
    IF jj < heightdivision
    THEN LET y1 == Level(jj, heightdivision)
             y2 == Level(jj + 1, heightdivision)
             r1 == <<heightdivision - jj, heightdivision>>
             r2 == <<heightdivision - jj - 1, heightdivision>>
             q1 == RimPoint(r1, ii, radialdivision, y1)
             q2 == RimPoint(r1, ii + 1, radialdivision, y1)
             q3 == RimPoint(r2, ii, radialdivision, y2)
             q4 == RimPoint(r2, ii + 1, radialdivision, y2)
         IN ConeSide(addTriangle(addTriangle(buf, q1, q3, q4), q1, q4, q2),
                     ii, jj + 1, radialdivision, heightdivision)
    ELSE buf

RECURSIVE ConeFrom(_, _, _, _)
ConeFrom(buf, ii, radialdivision, heightdivision) ==
    IF ii < radialdivision
    THEN LET bottom == addTriangle(buf, AxisPoint(Float(-25)),
                      RimPoint(<<1, 1>>, ii, radialdivision, Float(-25)),
                      RimPoint(<<1, 1>>, ii + 1, radialdivision, Float(-25)))
         IN ConeFrom(ConeSide(bottom, ii, 0, radialdivision, heightdivision),
                     ii + 1, radialdivision, heightdivision)
    ELSE buf

\* makeCone(radialdivision, heightdivision)
makeCone(buf, radialdivision, heightdivision) ==
    ConeFrom(buf, 0, radialdivision, heightdivision)

\* ------------------------------------- the 3D page: createNewShape()
TREE == 1
CYLINDER == 2
CONE == 3
CUBE == 4
Shapes == {TREE, CYLINDER, CONE, CUBE}

\* the shapes whose branch of createNewShape calls makeStochasticTree
TreeShapes == {TREE, CUBE}

division2 == 1

\* points = []; indices = []; bary = [];
ClearBuffers_Mut(buf) == buf
ClearBuffers(buf) == Buffers(<<>>, <<>>, <<>>)

\* the branch of createNewShape for the shape, interpreting seq where the
\* branch draws the tree; an unknown shape is only logged
ShapeBranch(buf, shape, divs, seq) ==
    IF shape = TREE
    THEN makeStochasticTree(makeGroundPlane(buf, 200, -100), seq, divs)
    ELSE IF shape = CYLINDER
    THEN Mesh(TreeStart, makeCylinder(buf, divs, division2))
    ELSE IF shape = CONE
    THEN Mesh(TreeStart, makeCone(buf, divs, division2))
    ELSE IF shape = CUBE
    THEN makeStochasticTree(buf, seq, divs)
    ELSE Mesh(TreeStart, buf)

\* if (indices.length % 2 != 0) indices.push(indices[indices.length-1])
PadIndices_Mut(idx) == idx
PadIndices(idx) ==
    IF Len(idx) % 2 # 0 THEN Append(idx, idx[Len(idx)]) ELSE idx

\* what a whole call of createNewShape leaves in the buffers
ShapeOutput(buf, shape, divs, seq) ==
    LET built == ShapeBranch(ClearBuffers(buf), shape, divs, seq) IN
    IF built.threw THEN built
    ELSE [built EXCEPT !.indices = PadIndices(@)]

\* the page before init() builds the first shape
ShapeInit ==
    /\ prog = "tess"
    /\ growthIterations \in 0..MaxStoIter
    /\ storedGrammar = Null
    /\ curShape = TREE
    /\ division1 \in 1..MaxSubdiv
    /\ rules = <<>>
    /\ angleToUse = 225
    /\ iterations = 0
    /\ iterations2 = 0
    /\ grammarArray = <<>>
    /\ RunAtRest
    /\ tvariant = "none"
    /\ turtle = [i |-> 0]
    /\ subdivisions = 0
    /\ tpc = "idle"
    /\ hist = <<>>
    /\ BuffersEmpty
    /\ BranchIdle
    /\ history = [id \in TreeIds |-> <<>>]
    /\ reported = FALSE
    /\ last = Call("none", 0, 0, <<>>)
    /\ prev = ""

\* createNewShape() of part_000, the whole call, with the globals curShape
\* and division1 as init() or the key handler left them for it
CreateNewShape ==
    /\ prog = "tess"
    /\ \/ last.op = "none" /\ UNCHANGED <<curShape, division1>>
       \/ curShape' \in Shapes /\ division1' \in 1..MaxSubdiv
    /\ \E g \in (IF curShape' \in TreeShapes
                 THEN CachedOrFresh(storedGrammar, growthIterations)
                 ELSE {<<>>}) :
        LET out == ShapeOutput(Buffers(points, bary, indices),
                               curShape', division1', g)
        IN /\ storedGrammar' =
                 IF curShape' \in TreeShapes THEN g ELSE storedGrammar
           /\ rules' = IF curShape' \in TreeShapes /\ storedGrammar = Null
                       THEN RulesTree ELSE rules
           /\ points' = out.points
           /\ bary' = out.bary
           /\ indices' = out.indices
           /\ reported' = (out.threw \/ curShape' \notin Shapes)
           /\ last' = Call("createNewShape", curShape', division1', g)
    /\ UNCHANGED <<rvariant, iterations, startString, grammarArray,
                   doubleBuffer, dbType, i, j, rand, rpc>>
    /\ UNCHANGED <<tvars, colors, bvars>>
    /\ UNCHANGED <<prog, iterations2, growthIterations, history, prev>>

\* generateNewTree(): the cached sequence is replaced by a fresh draw;
\* prev notes what the draw replaced
GenerateNewTree ==
    /\ prog = "tess"
    /\ \E g \in runLSystem(growthIterations, <<"F">>) :
        /\ storedGrammar' = g
        /\ prev' = IF storedGrammar = Null THEN "first"
                   ELSE IF storedGrammar = g THEN "same"
                   ELSE "replaced"
    /\ rules' = RulesTree
    /\ UNCHANGED <<rvariant, iterations, startString, grammarArray,
                   doubleBuffer, dbType, i, j, rand, rpc>>
    /\ UNCHANGED <<tvars, bufvars, bvars>>
    /\ UNCHANGED <<prog, iterations2, growthIterations, history, curShape,
                   division1, reported, last>>

ShapeNext ==
    \/ GenerateNewTree
    \/ CreateNewShape

\* ----------------------------- the forest page: per-id generation cache
\* createNewShape of the newer tessMain builds three trees, passing each
\* call a placement and a tree id. The cache behind the id is modelled as
\* the generation cache: one history [gen0, ..., genK] per id. The meshes
\* of the ground box and of the placed trees are not followed on this
\* page; last.grammar holds the sequence each instance interprets and
\* last.type the number of generations each id had stored when the build
\* started.

\* the cache slot of a tree id
SlotOf_Mut(id) == 0
SlotOf(id) == id

\* retrieve or create the history of an id: a missing history starts at
\* generation 0, the axiom
HistoryBase_Mut(h) == << <<"F">> >>
HistoryBase(h) == IF Len(h) = 0 THEN << <<"F">> >> ELSE h

\* extend the history by rewriting its last entry one iteration at a time
\* until it has targetDepth + 1 entries
RECURSIVE ExtendHistory(_, _)
ExtendHistory(h, targetDepth) ==
    IF Len(h) < targetDepth + 1
    THEN UNION {ExtendHistory(Append(h, SubSeq(s, 1, Len(s))),
                              targetDepth) :
                  s \in RoundResults("runLSystem", RulesTree, h[Len(h)],
                                     1, Len(h[Len(h)]))}
    ELSE {h}

\* rewriteIncremental(id, targetDepth) on the history h of the id: the
\* histories the call can leave; it returns entry targetDepth of the one
\* it leaves
rewriteIncremental(h, targetDepth) ==
    ExtendHistory(HistoryBase(h), targetDepth)

\* the three makeStochasticTree calls of createNewShape, from id tree on:
\* the caches they can leave
RECURSIVE BuildFrom(_, _, _)
BuildFrom(cache, tree, depth) ==
    IF tree \in TreeIds
    THEN UNION {BuildFrom([cache EXCEPT ![SlotOf(tree)] = h],
                          tree + 1, depth) :
                  h \in rewriteIncremental(cache[SlotOf(tree)], depth)}
    ELSE {cache}

\* no history for any id
EmptyCache == [tree \in TreeIds |-> <<>>]

\* the number of generations stored per id, by position id + 1
Stored(cache) == <<Len(cache[0]), Len(cache[1]), Len(cache[2])>>

\* the sequence each instance interprets, by position id + 1
Interpreted(cache, depth) ==
    <<cache[SlotOf(0)][depth + 1], cache[SlotOf(1)][depth + 1],
      cache[SlotOf(2)][depth + 1]>>

NoTree == -1

\* the page after init() has built the first forest
ForestInit ==
    /\ prog = "forest"
    /\ growthIterations \in 0..MaxStoIter
    /\ history \in BuildFrom(EmptyCache, 0, growthIterations)
    /\ last = Call("createNewShape", Stored(EmptyCache), growthIterations,
                   Interpreted(history, growthIterations))
    /\ prev = NoTree
    /\ storedGrammar = Null
    /\ curShape = TREE
    /\ division1 = 3
    /\ rules = RulesTree
    /\ angleToUse = 225
    /\ iterations = 0
    /\ iterations2 = 0
    /\ grammarArray = <<>>
    /\ RunAtRest
    /\ tvariant = "none"
    /\ turtle = [i |-> 0]
    /\ subdivisions = 0
    /\ tpc = "idle"
    /\ hist = <<>>
    /\ BuffersEmpty
    /\ BranchIdle
    /\ reported = FALSE

\* the growth depth is changed and createNewShape rebuilds the forest
\* from the caches
RegrowForest ==
    /\ prog = "forest"
    /\ \E d \in (0..MaxStoIter) \ {growthIterations} :
        /\ growthIterations' = d
        /\ \E cache \in BuildFrom(history, 0, d) :
            /\ history' = cache
            /\ last' = Call("createNewShape", Stored(history), d,
                            Interpreted(cache, d))
    /\ prev' = NoTree
    /\ UNCHANGED <<rvars, tvars, bufvars, bvars>>
    /\ UNCHANGED <<prog, iterations2, storedGrammar, curShape, division1,
                   reported>>

\* the cache of one tree id is cleared and createNewShape rebuilds the
\* forest
RerollTree ==
    /\ prog = "forest"
    /\ \E id \in TreeIds :
        LET cleared == [history EXCEPT ![SlotOf(id)] = <<>>] IN
        /\ prev' = id
        /\ \E cache \in BuildFrom(cleared, 0, growthIterations) :
            /\ history' = cache
            /\ last' = Call("createNewShape", Stored(cleared),
                            growthIterations,
                            Interpreted(cache, growthIterations))
    /\ UNCHANGED <<rvars, tvars, bufvars, bvars>>
    /\ UNCHANGED <<prog, iterations2, storedGrammar, growthIterations,
                   curShape, division1, reported>>

ForestNext ==
    \/ RegrowForest
    \/ RerollTree

\* ------------------------------------------------------ specifications
InitRun ==
    RunInit /\ TurtleIdle /\ BranchIdle /\ BuffersEmpty /\ SessionIdle
SpecRun == InitRun /\ [][RunNext]_vars

InitTurtle == TurtleInit /\ RunIdle /\ BranchIdle /\ SessionIdle
SpecTurtle == InitTurtle /\ [][TurtleNext]_vars

InitBranch ==
    BranchInit /\ RunIdle /\ grammarArray = <<>> /\ TurtleIdle /\ SessionIdle
SpecBranch == InitBranch /\ [][BranchNext]_vars

SpecLSystem == LSystemInit /\ [][LSystemNext]_vars

SpecShape == ShapeInit /\ [][ShapeNext]_vars

SpecForest == ForestInit /\ [][ForestNext]_vars

\* the two pages of part_000, each with its own entry points
PagesInit == LSystemInit \/ ShapeInit
PagesNext == LSystemNext \/ ShapeNext
SpecPages == PagesInit /\ [][PagesNext]_vars

\* ------------------------------------------------- claims on the rewriters
\* C1: with iterations = 0 every rewriter returns exactly the axiom's
\* symbols, in order, nothing added or removed.
C1_ZeroIterationsReturnAxiom ==
    (rpc = "returned" /\ iterations = 0) =>
        /\ Len(grammarArray) = Len(startString)
        /\ \A k \in 1..Len(startString) : grammarArray[k] = startString[k]

C1_Witness ==
    /\ rpc = "returned"
    /\ iterations = 0
    /\ rvariant = "oldfiles"
    /\ startString = <<"0", "[">>
    /\ grammarArray = <<"0", "[">>

\* C2: in every rewriter a symbol without a rule is copied to the next
\* sequence as exactly one unchanged symbol, at every position, and the
\* round it belongs to completes without an error.
C2_NoRuleSymbolCopied ==
    [][ /\ (InRound /\ ~HasRule(rules, char)) =>
              (rpc' = "loop" /\ doubleBuffer' = doubleBuffer \o <<char>>)
        /\ ( /\ rpc = "loop"
             /\ i < iterations
             /\ j = Len(grammarArray)
             /\ \E k \in 1..Len(grammarArray) :
                    ~HasRule(rules, grammarArray[k]) ) =>
              (rpc' = "loop" /\ grammarArray' = doubleBuffer) ]_vars

\* C3: a stochastic rule with draw r emits the replacement of the first
\* alternative whose cumulative probability is >= r, or of the last
\* alternative when no cumulative sum reaches r; it never fails.
RECURSIVE CumProb(_, _)
CumProb(alts, k) == IF k = 0 THEN 0 ELSE CumProb(alts, k - 1) + alts[k].prob

Reaches(alts, r, k) == CumProb(alts, k) * DrawRes >= r * 100

ExpectedIndex(alts, r) ==
    IF \E k \in 1..Len(alts) : Reaches(alts, r, k)
    THEN CHOOSE k \in 1..Len(alts) :
            Reaches(alts, r, k) /\ \A m \in 1..(k - 1) : ~Reaches(alts, r, m)
    ELSE Len(alts)

C3_StochasticPicksOne ==
    [][ (InRound /\ NewStyle /\ IsArrayRule(rules, char)) =>
          LET alts == rules[char].alts IN
          /\ rpc' = "loop"
          /\ rand' \in 0..(DrawRes - 1)
          /\ j' = j + 1
          /\ doubleBuffer' =
                doubleBuffer \o alts[ExpectedIndex(alts, rand')].res ]_vars

C3_Witness ==
    /\ rvariant = "part000"
    /\ rules = RulesLenient
    /\ rand * 100 > 60 * DrawRes
    /\ j >= 1
    /\ grammarArray[j] = "F"
    /\ Len(doubleBuffer) >= 2
    /\ SubSeq(doubleBuffer, Len(doubleBuffer) - 1, Len(doubleBuffer))
          = <<"[", "]">>

\* C4: with the single rule F -> FF and axiom "F", run returns a sequence
\* of length 2^n after n iterations.
C4_DoublingLength ==
    ( /\ rpc = "returned"
      /\ rvariant = "part000"
      /\ rules = RulesFF
      /\ startString = <<"F">> ) => Len(grammarArray) = 2 ^ iterations

C4_Witness ==
    /\ rpc = "returned"
    /\ rvariant = "part000"
    /\ rules = RulesFF
    /\ startString = <<"F">>
    /\ iterations = MaxIter
    /\ Len(grammarArray) = 2 ^ MaxIter

\* ------------------------------------------------- claims on the turtles
\* number of `[` minus number of `]` among the first n symbols of seq
RECURSIVE Balance(_, _)
Balance(seq, n) ==
    IF n = 0 THEN 0
    ELSE Balance(seq, n - 1)
         + (IF seq[n] = "[" THEN 1 ELSE IF seq[n] = "]" THEN -1 ELSE 0)

Balanced(w) ==
    /\ Balance(w, Len(w)) = 0
    /\ \A m \in 0..Len(w) : Balance(w, m) >= 0

\* symbol k is the first `]` that has no matching `[`
FirstUnderflow(seq, k) ==
    /\ seq[k] = "]"
    /\ Balance(seq, k - 1) = 0
    /\ \A m \in 0..(k - 1) : Balance(seq, m) >= 0

\* C5: a `]` met with an empty stack aborts the interpretation in every
\* turtle variant that keeps a stack: no symbol at or after it is
\* interpreted, so nothing is emitted after the underflow and no undefined
\* pose is ever used.
C5_UnderflowAborts ==
    (tpc # "idle" /\ tvariant # "sierpinski") =>
        \A k \in 1..Len(grammarArray) :
            FirstUnderflow(grammarArray, k) =>
                (turtle.i < k /\ tpc # "done")

\* C6: in drawPlant of part_000, after the `]` that closes `[` w `]` with w
\* bracket-balanced, position and heading are what they were before the
\* `[`; after "F[+F][-F]" the position is the one right after the first F.
C6_BracketsRestorePlant ==
    tvariant = "part000" =>
        /\ \A m \in 1..turtle.i : \A n \in (m + 1)..turtle.i :
              ( /\ grammarArray[m] = "["
                /\ grammarArray[n] = "]"
                /\ Balanced(SubSeq(grammarArray, m + 1, n - 1)) ) =>
              /\ hist[n + 1].pose.x = hist[m].pose.x
              /\ hist[n + 1].pose.y = hist[m].pose.y
              /\ hist[n + 1].pose.angle = hist[m].pose.angle
        /\ (grammarArray = SampleBranches /\ tpc = "done") =>
              /\ turtle.x = hist[2].pose.x
              /\ turtle.y = hist[2].pose.y

C6_Witness ==
    /\ tvariant = "part000"
    /\ grammarArray = SampleNested
    /\ turtle.i = 9
    /\ turtle.angle = 900
    /\ turtle.x = hist[2].pose.x
    /\ Len(points) = 18

RECURSIVE DrawCount(_, _)
DrawCount(seq, n) ==
    IF n = 0 THEN 0
    ELSE DrawCount(seq, n - 1) + (IF seq[n] \in {"F", "X"} THEN 1 ELSE 0)

\* C8 as stated: once drawPlant of part_000 has ended on any symbol
\* sequence, the number of segments (6 floats in points, 6 in colors each)
\* is the number of drawing symbols of the sequence.
C8_SegmentPerDrawSymbol ==
    (tvariant = "part000" /\ tpc \in {"done", "threw"}) =>
        /\ Len(points) = 6 * DrawCount(grammarArray, Len(grammarArray))
        /\ Len(colors) = 6 * DrawCount(grammarArray, Len(grammarArray))

\* C8 amended: at every point of drawPlant of part_000 the number of
\* segments is the number of drawing symbols interpreted so far; the whole
\* sequence is interpreted unless a `]` met an empty stack, where the
\* interpretation stops.
C8_SegmentPerInterpretedDraw ==
    tvariant = "part000" =>
        /\ Len(points) = 6 * DrawCount(grammarArray, turtle.i)
        /\ Len(colors) = 6 * DrawCount(grammarArray, turtle.i)
        /\ tpc = "done" => turtle.i = Len(grammarArray)
        /\ tpc = "threw" => FirstUnderflow(grammarArray, turtle.i + 1)

C8_Witness ==
    /\ tvariant = "part000"
    /\ grammarArray = SampleBranches
    /\ tpc = "done"
    /\ Len(points) = 18
    /\ Len(colors) = 18

\* ------------------------------------------ claims on makeBranchSegment
\* C9: a call of makeBranchSegment appends 2 * radialDivs triangles: 18 *
\* radialDivs floats to points (and to bary), 6 * radialDivs indices, and
\* leaves the entries that were in the buffers unchanged.
C9_BranchAppendsTwoTrianglesPerDivision ==
    bpc = "returned" =>
        /\ Len(points) = Len(before.points) + 18 * radialDivs
        /\ Len(bary) = Len(before.bary) + 18 * radialDivs
        /\ Len(indices) = Len(before.indices) + 6 * radialDivs
        /\ SubSeq(points, 1, Len(before.points)) = before.points
        /\ SubSeq(bary, 1, Len(before.bary)) = before.bary
        /\ SubSeq(indices, 1, Len(before.indices)) = before.indices

C9_Witness ==
    /\ bpc = "returned"
    /\ radialDivs = 3
    /\ Len(before.points) = 18
    /\ Len(points) = 72
    /\ indices[24] = 23

\* C10: makeBranchSegment rejects degenerate input (radius <= 0,
\* radialDivs < 3 or p1 = p2): it reports the violation instead of
\* returning, and the buffers stay as they were.
C10_DegenerateRejected ==
    (bpc # "idle" /\ (radius[1] <= 0 \/ radialDivs < 3 \/ p1 = p2)) =>
        /\ bpc # "returned"
        /\ points = before.points
        /\ bary = before.bary
        /\ indices = before.indices

\* ------------------------------------------- claims on the entry points
\* C11: a selector that names no grammar (or a missing one) is reported as
\* a configuration error: no default grammar is substituted and no
\* geometry is emitted.
C11_UnknownTypeRejected ==
    (last.op \in {"createLSystem", "createGrammar"}
        /\ last.type \notin GrammarTypes) =>
        /\ reported
        /\ grammarArray = <<>>
        /\ points = <<>>
        /\ colors = <<>>

\* C18: for a deterministic grammar type and a fixed iteration count,
\* createGrammar of part_000 returns the same sequence on every call,
\* whatever calls came before: the sequence a first call on a fresh page
\* returns.
C18_DeterministicRegeneration ==
    ( /\ prog = "lsystem"
      /\ last.op = "createLSystem"
      /\ SelectorOrDefault(last.type) \in DetTypes ) =>
        \A fresh \in createGrammar(SelectorOrDefault(last.type), <<>>,
                                    last.n, last.n) :
            /\ grammarArray = fresh.grammar
            /\ last.grammar = fresh.grammar

C18_Witness ==
    /\ prog = "lsystem"
    /\ prev = "stochastic"
    /\ last.type = "sympodial"
    /\ last.n = MaxGen
    /\ rules = RulesSympodial
    /\ Len(grammarArray) > 12

\* C19: in one round of run (part_000) every symbol with a deterministic
\* rule is replaced by exactly that rule's replacement, a rule whose
\* replacement is the empty sequence included (the symbol is erased).
C19_DeterministicRuleApplied ==
    [][ ( /\ InRound
          /\ rvariant = "part000"
          /\ HasRule(rules, char)
          /\ ~IsArrayRule(rules, char) ) =>
            /\ j' = j + 1
            /\ doubleBuffer' = doubleBuffer \o rules[char].res ]_vars

\* C17: in the 3D turtle each of the six rotation symbols + - & ^ < >
\* changes exactly one of angleX, angleY, angleZ by exactly angleToUse and
\* leaves the other two, the position, step, radius, stack and the buffers
\* as they were.
RotationSymbols == {"+", "-", "&", "^", "<", ">"}
Accumulators == {"angleX", "angleY", "angleZ"}

C17_RotationChangesOneAccumulator ==
    [][ ( Walking /\ tvariant = "tree3d" /\ cmd \in RotationSymbols ) =>
          LET changed == {a \in Accumulators : turtle'[a] # turtle[a]} IN
          /\ Cardinality(changed) = 1
          /\ \A a \in changed : Abs(turtle'[a] - turtle[a]) = angleToUse
          /\ \A f \in {"x", "y", "z", "step", "radius", "stack"} :
                turtle'[f] = turtle[f]
          /\ UNCHANGED bufvars ]_vars

\* C20: in the 3D turtle, step = 0.2 * 0.9^d and radius = 0.03 * 0.8^d
\* at every point of the interpretation, d being the depth of the stack;
\* with the stack empty again both have their initial values.
RECURSIVE Pow(_, _)
Pow(b, n) == IF n = 0 THEN 1 ELSE b * Pow(b, n - 1)

C20_DimensionsFollowDepth ==
    (tvariant = "tree3d") =>
        LET d == Len(turtle.stack) IN
        /\ turtle.step = Norm(1 * Pow(9, d), 5 * Pow(10, d))
        /\ turtle.radius = Norm(3 * Pow(8, d), 100 * Pow(10, d))

\* "F[[F]^F]&F" interpreted to its end: the turtle was two levels deep
\* and is back at depth 0
C20_Witness ==
    /\ tvariant = "tree3d"
    /\ tpc = "done"
    /\ grammarArray = SampleTree
    /\ Len(turtle.stack) = 0
    /\ \E k \in 1..Len(hist) :
          /\ hist[k].pose.step = <<81, 500>>
          /\ hist[k].pose.radius = <<12, 625>>

\* ---------------------------------------------- claims on the 3D page
\* C12: a call of makeStochasticTree with a sequence cached interprets
\* that sequence and leaves it cached, whatever the subdivisions; with
\* none cached it draws one, caches it and interprets it; generateNewTree
\* replaces the cached sequence by a fresh draw, which the calls that
\* follow interpret.
C12_CachedTreeFrozen ==
    [][ (prog = "tess") =>
          /\ (last' # last /\ storedGrammar # Null) =>
                /\ storedGrammar' = storedGrammar
                /\ (last'.type \in TreeShapes) =>
                      last'.grammar = storedGrammar
          /\ (last' # last /\ storedGrammar = Null
                /\ last'.type \in TreeShapes) =>
                /\ storedGrammar' \in runLSystem(growthIterations, <<"F">>)
                /\ last'.grammar = storedGrammar'
          /\ (last' = last /\ storedGrammar' # storedGrammar) =>
                /\ prev' \in {"first", "replaced"}
                /\ storedGrammar' \in runLSystem(growthIterations, <<"F">>)
      ]_vars

\* a tree was built from the cached sequence after generateNewTree had
\* replaced a different one
C12_Witness ==
    /\ prog = "tess"
    /\ last.op = "createNewShape"
    /\ last.type = TREE
    /\ last.grammar = storedGrammar
    /\ prev = "replaced"

C16_BuffersHoldLastCall ==
    /\ (prog = "tess" /\ last.op = "createNewShape") =>
          LET out == ShapeOutput(EmptyBuffers, last.type, last.n,
                                 last.grammar)
          IN /\ points = out.points
             /\ bary = out.bary
             /\ indices = out.indices
             /\ colors = <<>>
    /\ (prog = "lsystem" /\ last.op = "createLSystem") =>
          LET w == drawGrammarPoints(<<>>, last.grammar,
                                     SelectorOrDefault(last.type),
                                     angleToUse)
          IN /\ points = w.points
             /\ colors = IF w.threw THEN w.colors
                         ELSE ColorsOrFill(w.colors, w.points)
             /\ bary = <<>>
             /\ indices = <<>>

\* a fractal plant drawn right after a Sierpinski curve
C16_Witness ==
    /\ prog = "lsystem"
    /\ last.op = "createLSystem"
    /\ prev = "sierpinski"
    /\ last.type = "fractal"
    /\ last.n = MaxGen
    /\ Len(points) > 0

Least(a, b) == IF a < b THEN a ELSE b
Greatest(a, b) == IF a > b THEN a ELSE b

RECURSIVE Profile(_, _, _)
Profile(seq, lo, hi) ==
    IF lo > hi THEN [sum |-> 0, low |-> 0, high |-> 0]
    ELSE IF lo = hi
    THEN IF seq[lo] = "[" THEN [sum |-> 1, low |-> 0, high |-> 1]
         ELSE IF seq[lo] = "]" THEN [sum |-> -1, low |-> -1, high |-> 0]
         ELSE [sum |-> 0, low |-> 0, high |-> 0]
    ELSE LET mid == (lo + hi) \div 2
             a == Profile(seq, lo, mid)
             b == Profile(seq, mid + 1, hi)
         IN [sum |-> a.sum + b.sum,
             low |-> Least(a.low, a.sum + b.low),
             high |-> Greatest(a.high, a.sum + b.high)]

\* no prefix holds more `]` than `[` and the totals are equal
WellNested(seq) ==
    LET p == Profile(seq, 1, Len(seq)) IN p.sum = 0 /\ p.low = 0

Unrecognised(variant, c) ==
    \/ variant = "part000" /\ c \notin {"F", "X", "+", "-", "[", "]"}
    \/ variant = "sierpinski" /\ c \notin {"A", "B", "+", "-"}
    \/ variant = "tree3d" /\ c \notin {"F", "+", "-", "&", "^", "[", "]"}

\* C22: in drawPlant and drawSierpinski of part_000 and in
\* makeStochasticTree, interpreting a symbol the interpreter has no case
\* for leaves position, orientation, step, radius, the stack and all four
\* output buffers as they were; only the loop index moves on.
C22_UnrecognisedChangesNothing ==
    [][ ( Walking /\ Unrecognised(tvariant, cmd) ) =>
          /\ Pose(turtle') = Pose(turtle)
          /\ turtle'.stack = turtle.stack
          /\ turtle'.i = turtle.i + 1
          /\ tpc' = tpc
          /\ UNCHANGED bufvars ]_vars

\* drawSierpinski has drawn A and stepped over a `]`: one segment, the pose
\* as it was after the A
C22_Witness ==
    /\ tvariant = "sierpinski"
    /\ turtle.i = 2
    /\ grammarArray[1] = "A"
    /\ grammarArray[2] = "]"
    /\ Len(points) = 6
    /\ hist[3] = hist[2]

\* ------------------------------------------- claims on the branch frame
Dot(a, b) == a[1] * b[1] + a[2] * b[2] + a[3] * b[3]

\* axis = sub(p2, p1) of the call in progress, in hundredths
Axis == sub(<<p2[1].base, p2[2].base, p2[3].base>>,
            <<p1[1].base, p1[2].base, p1[3].base>>)

Zero3 == <<0, 0, 0>>

\* C23: for every segment of non-zero length the auxiliary vector
\* makeBranchSegment chooses is not parallel to the segment, so
\* cross(direction, aux) is not the zero vector, and right and up are
\* perpendicular to the direction and to each other (on the vectors before
\* normalisation).
C23_FramePerpendicular ==
    (bpc # "idle" /\ Axis # Zero3) =>
        /\ cross(Axis, aux(Axis)) # Zero3
        /\ up(Axis) # Zero3
        /\ Dot(right(Axis), Axis) = 0
        /\ Dot(up(Axis), Axis) = 0
        /\ Dot(right(Axis), up(Axis)) = 0

\* a vertical segment, for which aux is the X axis, meshed to its end
C23_Witness ==
    /\ bpc = "returned"
    /\ p1 = Point(0, -1, 0)
    /\ p2 = Point(0, 1, 0)
    /\ aux(Axis) = <<1, 0, 0>>
    /\ radialDivs = 3
    /\ Len(points) = 54

\* ------------------------------------------- claims on the mesh buffers
\* C24: after any sequence of addTriangle calls on empty buffers, made
\* directly, by makeGroundPlane or by makeBranchSegment, bary is as long as
\* points and the three vertices of every triangle carry (1,0,0), (0,1,0),
\* (0,0,1) in that order.
C24_BaryPerVertex ==
    bpc # "idle" =>
        /\ Len(bary) = Len(points)
        /\ Len(points) % 9 = 0
        /\ \A t \in 0..((Len(bary) \div 9) - 1) :
              /\ SubSeq(bary, 9 * t + 1, 9 * t + 3) = <<1, 0, 0>>
              /\ SubSeq(bary, 9 * t + 4, 9 * t + 6) = <<0, 1, 0>>
              /\ SubSeq(bary, 9 * t + 7, 9 * t + 9) = <<0, 0, 1>>

\* a ground plane followed by a branch of two divisions: six triangles
C24_Witness ==
    /\ bpc = "returned"
    /\ before = makeGroundPlane(EmptyBuffers, 200, -100)
    /\ radialDivs = 2
    /\ Len(points) = 54
    /\ Len(bary) = 54

C26_ColourPerVertex ==
    (prog = "lsystem" /\ last.op = "createLSystem") =>
        /\ ~reported
        /\ Len(colors) = Len(points)
        /\ Len(points) % 6 = 0
        /\ \A s \in 0..((Len(points) \div 6) - 1) :
              SubSeq(colors, 6 * s + 1, 6 * s + 3)
                  = SubSeq(colors, 6 * s + 4, 6 * s + 6)

\* "B-A-B": a blue, a red and a blue segment
C26_Witness ==
    /\ prog = "lsystem"
    /\ last.op = "createLSystem"
    /\ last.type = "sierpinski"
    /\ last.n = 1
    /\ Len(points) = 18
    /\ SubSeq(colors, 1, 6) = <<30, 30, 100, 30, 30, 100>>
    /\ SubSeq(colors, 7, 12) = <<100, 30, 30, 100, 30, 30>>

\* ------------------------------------------- claims on the skeleton
\* start and end point of segment s (counted from 0) of drawPlant, as
\* addLine wrote them
LineStart(s) == SubSeq(points, 6 * s + 1, 6 * s + 3)
LineEnd(s) == SubSeq(points, 6 * s + 4, 6 * s + 6)

\* a ring vertex without its ring offset: the point on the axis
OnAxis(f) == [f EXCEPT !.terms = SubSeq(@, 1, Len(@) - 1)]

\* start and end point of branch s (counted from 0) of makeStochasticTree:
\* the axis points under v0 = add(p1, r1) and v2 = add(p2, r1) of its first
\* triangle
BranchStart(s) ==
    LET o == 18 * subdivisions * s IN
    <<OnAxis(points[o + 1]), OnAxis(points[o + 2]), OnAxis(points[o + 3])>>
BranchEnd(s) ==
    LET o == 18 * subdivisions * s IN
    <<OnAxis(points[o + 7]), OnAxis(points[o + 8]), OnAxis(points[o + 9])>>

\* C27: in drawPlant of part_000 and in makeStochasticTree every emitted
\* segment starts at the turtle's initial position or at the end point of
\* a segment emitted earlier in the same pass, and right after a draw the
\* turtle stands at the end point of the segment just emitted; this holds
\* at every point of the interpretation, of a bracket-balanced sequence in
\* particular.
C27_SkeletonConnected ==
    /\ (tvariant = "part000") =>
          LET n == Len(points) \div 6 IN
          /\ \A s \in 0..(n - 1) :
                \/ LineStart(s) = <<PlantStart.x, PlantStart.y, PlantStart.z>>
                \/ \E e \in 0..(s - 1) : LineStart(s) = LineEnd(e)
          /\ (turtle.i >= 1 /\ PlantDraws(grammarArray[turtle.i])) =>
                <<turtle.x, turtle.y, turtle.z>> = LineEnd(n - 1)
    /\ (tvariant = "tree3d") =>
          LET n == Len(points) \div (18 * subdivisions) IN
          /\ \A s \in 0..(n - 1) :
                \/ BranchStart(s) = <<TreeStart.x, TreeStart.y, TreeStart.z>>
                \/ \E e \in 0..(s - 1) : BranchStart(s) = BranchEnd(e)
          /\ (turtle.i >= 1 /\ grammarArray[turtle.i] = "F") =>
                <<turtle.x, turtle.y, turtle.z>> = BranchEnd(n - 1)

\* "F[+F][-F]" interpreted by makeStochasticTree: the third branch starts
\* where the first ended, not where the second ended
C27_Witness ==
    /\ tvariant = "tree3d"
    /\ tpc = "done"
    /\ grammarArray = SampleBranches
    /\ subdivisions = 1
    /\ Len(points) = 54
    /\ BranchStart(2) = BranchEnd(0)
    /\ BranchStart(2) # BranchEnd(1)
    /\ BranchStart(0) = <<TreeStart.x, TreeStart.y, TreeStart.z>>

\* ------------------------------------------- claims on composition
\* the configurations with a deterministic rule table
DetRun == rvariant = "part000" /\ rules \in DetTables
OldDetRun == rvariant = "oldfiles" /\ rules \in OldTables

OldBuffer == [db |-> <<>>, dbType |-> "array", threw |-> FALSE]

\* C28: for deterministic rule tables rewriting composes: a call that
\* returns after n + 1 rounds returns run(1, t) for t the sequence
\* run(n, s), and the sequence held after i rounds is run(i, s); within a
\* round the previous round's sequence stays as it was and the buffer holds
\* the replacements of its first j symbols, each taken once, in order. A
\* call of the oldfiles rewriter that ends in a TypeError has the TypeError
\* on both sides.
C28_RoundsCompose ==
    /\ (DetRun /\ rpc \in {"loop", "returned"}) =>
          /\ run(rules, i, startString) = {grammarArray}
          /\ RoundResults("part000", rules, grammarArray, 1, j)
                = {doubleBuffer}
          /\ (rpc = "returned" /\ iterations >= 1) =>
                \E t \in run(rules, iterations - 1, startString) :
                    run(rules, 1, t) = {grammarArray}
    /\ (OldDetRun /\ rpc \in {"loop", "returned"} /\ dbType = "array") =>
          /\ OldRun(rules, i, startString)
                = [grammar |-> grammarArray, threw |-> FALSE]
          /\ OldRoundFrom(rules, grammarArray, 1, j, OldBuffer)
                = [db |-> doubleBuffer, dbType |-> "array", threw |-> FALSE]
          /\ (rpc = "returned" /\ iterations >= 1) =>
                LET t == OldRun(rules, iterations - 1, startString) IN
                /\ ~t.threw
                /\ OldRun(rules, 1, t.grammar)
                      = [grammar |-> grammarArray, threw |-> FALSE]
    /\ (OldDetRun /\ rpc = "threw") =>
          LET t == OldRun(rules, iterations - 1, startString) IN
          t.threw \/ OldRun(rules, 1, t.grammar).threw

\* "FF" rewritten twice under F -> FF: eight symbols, which is one round
\* applied to the four symbols of run(1, "FF")
C28_Witness ==
    /\ rvariant = "part000"
    /\ rules = RulesFF
    /\ startString = <<"F", "F">>
    /\ iterations = 2
    /\ rpc = "returned"
    /\ Len(grammarArray) = 8
    /\ run(rules, 1, startString) = {<<"F", "F", "F", "F">>}

\* ------------------------------------------- claims on the tree's plane
\* a z coordinate that is exactly 0: it starts at 0 and every term added to
\* it is the third component of the forward vector with angleX = angleY = 0,
\* which rotateX and rotateY leave at 0
ZeroZ(f) ==
    /\ f.tag = "num"
    /\ f.base = 0
    /\ \A k \in 1..Len(f.terms) :
          /\ f.terms[k][1] = "dir"
          /\ f.terms[k][2] = 3
          /\ f.terms[k][4] = 0
          /\ f.terms[k][5] = 0

\* the turtle of makeStochasticTree after the first k symbols of seq
TurtleAfter(seq, k) ==
    TreeWalk(Mesh(TreeStart, EmptyBuffers), seq, 1, k, 225, 1).t

RECURSIVE FCount(_, _)
FCount(seq, n) ==
    IF n = 0 THEN 0
    ELSE FCount(seq, n - 1) + (IF seq[n] = "F" THEN 1 ELSE 0)

\* deepest bracket nesting of seq
NestingDepth(seq) ==
    CHOOSE d \in 0..Len(seq) :
        /\ \E m \in 0..Len(seq) : Balance(seq, m) = d
        /\ \A m \in 0..Len(seq) : Balance(seq, m) <= d

====
